---- MODULE Spec2Model ----
(***************************************************************************)
(* Indicator and alert engine of the USD/JPY carry-trade monitor:          *)
(* src/indicators/spread.py, src/indicators/volatility.py,                 *)
(* src/indicators/divergence.py and src/components/alerts.py.              *)
(*                                                                         *)
(* The analyzers are functions of their arguments and of the module-level  *)
(* configuration ALERT_THRESHOLDS.  The state is the configuration and the *)
(* last call made: its name, its arguments and what it returned.  Every    *)
(* action is one call of one function with arguments drawn from a bounded  *)
(* set.                                                                    *)
(*                                                                         *)
(* Numbers.  Yields, spreads and spread thresholds are in tenths of a      *)
(* percentage point (15 is 1.5).  Prices are positive integers.  Returns,  *)
(* relative strengths, velocities and betas are exact rationals            *)
(* [num, den] in lowest terms with den > 0; percentages that the source    *)
(* compares with a rational are rationals too.  The source computes in     *)
(* IEEE doubles: the model computes the exact value the double             *)
(* approximates.  A missing value (pandas NaN) is the value NaN below.     *)
(***************************************************************************)
EXTENDS Integers, Sequences, FiniteSets, TLC

VARIABLES
    ALERT_THRESHOLDS,   \* config.ALERT_THRESHOLDS as read by the analyzers
    call,               \* name of the function called last ("none" at start)
    args,               \* its arguments
    ret                 \* its return value

vars == <<ALERT_THRESHOLDS, call, args, ret>>

----------------------------------------------------------------------------
(* Bounds of the model *)

\* longest spread series
MaxLen == 21

\* number of trading dates of a price frame of the divergence analyzer
MaxDates == 4

\* largest window of the divergence analyzer
MaxWindow == 2

\* largest number of assets given to analyze_liquidity_retreat
MaxAssets == 4

----------------------------------------------------------------------------
(* Defaults of config.ALERT_THRESHOLDS (tenths of a percentage point) *)

DEFAULT_SPREAD_CRITICAL == 15
DEFAULT_SPREAD_DANGER == 20
DEFAULT_SPREAD_WARNING == 25

\* A configuration with every key the analyzers read.  The spread thresholds
\* are the defaults; the volatility thresholds (daily and weekly move in
\* tenths of a percent, percentiles in percent) and the divergence threshold
\* (a negative fraction) are one admissible setting, which the
\* specifications below vary.
BaseThresholds ==
    [SPREAD_CRITICAL |-> DEFAULT_SPREAD_CRITICAL,
     SPREAD_DANGER |-> DEFAULT_SPREAD_DANGER,
     SPREAD_WARNING |-> DEFAULT_SPREAD_WARNING,
     JPY_DAILY_MOVE |-> 20,
     JPY_WEEKLY_MOVE |-> 50,
     VOL_PERCENTILE_HIGH |-> 80,
     VOL_PERCENTILE_EXTREME |-> 95,
     DIVERGENCE_THRESHOLD |-> [num |-> 0 - 1, den |-> 20]]

----------------------------------------------------------------------------
(* Numbers *)

\* the missing value of a float series (not a number of the model's range)
NaN == 0 - 1000000

IsNaN(x) == x = NaN

Abs(x) == IF x < 0 THEN 0 - x ELSE x

RECURSIVE Gcd(_, _)
Gcd(a, b) == IF b = 0 THEN a ELSE Gcd(b, a % b)

\* the rational n/d, d # 0, in lowest terms with a positive denominator
Rat(n, d) ==
    LET g == Gcd(Abs(n), Abs(d))
        s == IF d < 0 THEN 0 - 1 ELSE 1
    IN  [num |-> (s * n) \div g, den |-> (s * d) \div g]

RatInt(n) == [num |-> n, den |-> 1]
RatAdd(p, q) == Rat(p.num * q.den + q.num * p.den, p.den * q.den)
RatSub(p, q) == Rat(p.num * q.den - q.num * p.den, p.den * q.den)
RatMul(p, q) == Rat(p.num * q.num, p.den * q.den)
RatDiv(p, q) == Rat(p.num * q.den, p.den * q.num)
RatLess(p, q) == p.num * q.den < q.num * p.den
RatLeq(p, q) == p.num * q.den <= q.num * p.den
RatAbs(p) == [num |-> Abs(p.num), den |-> p.den]

\* the missing value of a series of rationals
RatNaN == [num |-> 0, den |-> 0]
IsRatNaN(p) == p.den = 0

\* the sum of a sequence of integers, by halves
RECURSIVE IntSum(_)
IntSum(s) ==
    IF Len(s) = 0 THEN 0
    ELSE IF Len(s) = 1 THEN s[1]
    ELSE IF Len(s) = 2 THEN s[1] + s[2]
    ELSE LET h == Len(s) \div 2
         IN  IntSum(SubSeq(s, 1, h)) + IntSum(SubSeq(s, h + 1, Len(s)))

Lcm(a, b) == (a \div Gcd(a, b)) * b

\* the least common multiple of a sequence of positive integers, by halves
RECURSIVE LcmSeq(_)
LcmSeq(s) ==
    IF Len(s) = 0 THEN 1
    ELSE IF Len(s) = 1 THEN s[1]
    ELSE IF Len(s) = 2 THEN Lcm(s[1], s[2])
    ELSE LET h == Len(s) \div 2
         IN  Lcm(LcmSeq(SubSeq(s, 1, h)), LcmSeq(SubSeq(s, h + 1, Len(s))))

\* the exact sum of a sequence of rationals, over their common denominator
RatSum(s) ==
    LET d == LcmSeq([i \in 1..Len(s) |-> s[i].den])
    IN  Rat(IntSum([i \in 1..Len(s) |-> s[i].num * (d \div s[i].den)]), d)

----------------------------------------------------------------------------
(* Series *)

\* Series.dropna(): the defined values, in order
dropna(s) == SelectSeq(s, LAMBDA x : ~IsNaN(x))

\* Series.tail(n): the last n rows; none for n = 0; all but the first -n
\* for n < 0
tail(s, n) ==
    IF n > 0 THEN (IF Len(s) <= n THEN s ELSE SubSeq(s, Len(s) - n + 1, Len(s)))
    ELSE IF n = 0 \/ Len(s) <= 0 - n THEN << >>
    ELSE SubSeq(s, 1 - n, Len(s))

\* an exception that leaves a function
Raised(exception) == [raised |-> exception]

----------------------------------------------------------------------------
(* src/indicators/spread.py *)

\* the spread over the dates that have both yields only
calculate_yield_spread_DropsMissing(us_yield, jp_yield) ==
    LET both == {i \in 1..Len(us_yield) :
                    /\ ~IsNaN(us_yield[i])
                    /\ ~IsNaN(IF jp_yield.scalar THEN jp_yield.value ELSE jp_yield.series[i])}
        nth(k) == CHOOSE i \in both : Cardinality({j \in both : j < i}) = k - 1
    IN  [k \in 1..Cardinality(both) |->
            us_yield[nth(k)]
                - (IF jp_yield.scalar THEN jp_yield.value ELSE jp_yield.series[nth(k)])]

\* calculate_yield_spread: the Spread column over the dates of us_yield.
\* jp_yield is [scalar |-> TRUE, value |-> v], a float broadcast over the
\* dates, or [scalar |-> FALSE, series |-> s], a series on the dates of
\* us_yield with NaN where the counterpart yield is missing.  An empty
\* us_yield gives the empty frame.
calculate_yield_spread(us_yield, jp_yield) ==
    IF Len(us_yield) = 0 THEN << >>
    ELSE [i \in 1..Len(us_yield) |->
            LET jp == IF jp_yield.scalar THEN jp_yield.value ELSE jp_yield.series[i]
            IN  IF IsNaN(us_yield[i]) \/ IsNaN(jp) THEN NaN
                ELSE us_yield[i] - jp]

\* a comparison with NaN is false
FloatLeq(a, b) == ~IsNaN(a) /\ ~IsNaN(b) /\ a <= b

check_spread_alert_DangerGeq(current_spread) ==
    IF FloatLeq(current_spread, ALERT_THRESHOLDS.SPREAD_CRITICAL) THEN "critical"
    ELSE IF FloatLeq(ALERT_THRESHOLDS.SPREAD_DANGER, current_spread) THEN "danger"
    ELSE IF FloatLeq(current_spread, ALERT_THRESHOLDS.SPREAD_WARNING) THEN "warning"
    ELSE "safe"

check_spread_alert_StrictCritical(current_spread) ==
    IF FloatLeq(current_spread, ALERT_THRESHOLDS.SPREAD_CRITICAL - 1) THEN "critical"
    ELSE IF FloatLeq(current_spread, ALERT_THRESHOLDS.SPREAD_DANGER) THEN "danger"
    ELSE IF FloatLeq(current_spread, ALERT_THRESHOLDS.SPREAD_WARNING) THEN "warning"
    ELSE "safe"

\* check_spread_alert: the level of the returned (level, colour) pair
check_spread_alert(current_spread) ==
    IF FloatLeq(current_spread, ALERT_THRESHOLDS.SPREAD_CRITICAL) THEN "critical"
    ELSE IF FloatLeq(current_spread, ALERT_THRESHOLDS.SPREAD_DANGER) THEN "danger"
    ELSE IF FloatLeq(current_spread, ALERT_THRESHOLDS.SPREAD_WARNING) THEN "warning"
    ELSE "safe"

\* the velocity from the first observation of the whole series
calculate_spread_velocity_FromStart(spread_df, window) ==
    IF Len(spread_df) = 0 THEN RatInt(0)
    ELSE LET spread == dropna(spread_df)
         IN  IF Len(spread) < window THEN RatInt(0)
             ELSE Rat(spread[Len(spread)] - spread[1], window)

\* calculate_spread_velocity; recent.iloc[-1] of no rows raises IndexError
calculate_spread_velocity(spread_df, window) ==
    IF Len(spread_df) = 0 THEN RatInt(0)
    ELSE LET spread == dropna(spread_df)
         IN  IF Len(spread) < window THEN RatInt(0)
             ELSE LET recent == tail(spread, window)
                  IN  IF Len(recent) = 0 THEN Raised("IndexError")
                      ELSE Rat(recent[Len(recent)] - recent[1], window)

is_spread_accelerating_Long(spread_df) ==
    LET velocity_5d == calculate_spread_velocity(spread_df, 5)
        velocity_20d == calculate_spread_velocity(spread_df, 20)
    IN  RatLess(velocity_5d, velocity_20d) /\ RatLess(velocity_20d, RatInt(0))

is_spread_accelerating(spread_df) ==
    LET velocity_5d == calculate_spread_velocity(spread_df, 5)
        velocity_20d == calculate_spread_velocity(spread_df, 20)
    IN  RatLess(velocity_5d, velocity_20d) /\ RatLess(velocity_5d, RatInt(0))

----------------------------------------------------------------------------
(* Inputs of the spread functions *)

\* values of a spread threshold, a spread and a yield (tenths of a percent)
ThresholdValues == {15, 20, 25}
SpreadValues == {0 - 5, 0, 13, 14, 15, 16, 19, 20, 21, 24, 25, 26, 30, 50, NaN}
SeriesValues == {10, 20, 30, NaN}

\* the series of n observations that is a up to the sixth from last, then b,
\* and c at the end: the 20-observation velocity reads a and c, the
\* 5-observation velocity b and c
SpreadSeries(n, a, b, c) ==
    [i \in 1..n |-> IF i = n THEN c ELSE IF i >= n - 4 THEN b ELSE a]

\* every configuration of the three spread thresholds, ordered or not
SpreadConfigs ==
    {[BaseThresholds EXCEPT !.SPREAD_CRITICAL = c, !.SPREAD_DANGER = d,
                            !.SPREAD_WARNING = w] :
        c \in ThresholdValues, d \in ThresholdValues, w \in ThresholdValues}

----------------------------------------------------------------------------
(* The spread analyzer as a state machine *)

InitSpread ==
    /\ ALERT_THRESHOLDS \in SpreadConfigs
    /\ call = "none"
    /\ args = << >>
    /\ ret = << >>

\* the call returns to the caller; nothing of it is kept
Return ==
    /\ call # "none"
    /\ call' = "none"
    /\ args' = << >>
    /\ ret' = << >>
    /\ UNCHANGED ALERT_THRESHOLDS

CalculateYieldSpread ==
    /\ call = "none"
    /\ \E n \in 0..2, us \in {40, 45}, jp \in {15, 32, NaN}, scalar \in BOOLEAN :
           LET us_yield == [i \in 1..n |-> us]
               jp_yield == IF scalar /\ ~IsNaN(jp) THEN [scalar |-> TRUE, value |-> jp]
                           ELSE [scalar |-> FALSE,
                                 series |-> [i \in 1..n |-> IF i = 1 THEN jp ELSE 15]]
           IN  /\ call' = "calculate_yield_spread"
               /\ args' = [us_yield |-> us_yield, jp_yield |-> jp_yield]
               /\ ret' = calculate_yield_spread(us_yield, jp_yield)
               /\ UNCHANGED ALERT_THRESHOLDS

CheckSpreadAlert ==
    /\ call = "none"
    /\ \E current_spread \in SpreadValues :
           /\ call' = "check_spread_alert"
           /\ args' = [current_spread |-> current_spread]
           /\ ret' = check_spread_alert(current_spread)
           /\ UNCHANGED ALERT_THRESHOLDS

IsSpreadAccelerating ==
    /\ call = "none"
    /\ \E n \in 0..MaxLen, a \in SeriesValues, b \in SeriesValues, c \in SeriesValues :
           LET spread_df == SpreadSeries(n, a, b, c)
           IN  /\ call' = "is_spread_accelerating"
               /\ args' = [spread_df |-> spread_df]
               /\ ret' = is_spread_accelerating(spread_df)
               /\ UNCHANGED ALERT_THRESHOLDS

NextSpread == CalculateYieldSpread \/ CheckSpreadAlert \/ IsSpreadAccelerating \/ Return

SpecSpread == InitSpread /\ [][NextSpread]_vars

----------------------------------------------------------------------------
(* src/components/alerts.py: calculate_composite_risk_score *)

\* dict.get(key, default); a dict is a function on its keys
get(d, key, default) == IF key \in DOMAIN d THEN d[key] ELSE default

\* the empty dict
EmptyDict == [k \in {} |-> 0]

\* The factor strings, in English:
\*   "spread extremely narrow"      利差极度收窄
\*   "spread dangerously narrow"    利差危险收窄
\*   "spread at the warning line"   利差收窄至警戒线
\*   "spread at a low level"        利差处于较低水平
\*   "volatility extreme"           波动率处于极端水平
\*   "volatility high"              波动率偏高
\*   "volatility rising"            波动率有所上升
\*   "severe divergence"            严重资产背离
\*   "clear divergence"             明显资产背离
\*   "slight divergence"            轻微资产背离

\* the spread part with every band tested by its own `if`
spread_risk_NoElif(spread_stats) ==
    LET spread == get(spread_stats, "current", 50)
        b(limit, pts, f) == IF FloatLeq(spread, limit)
                            THEN [score |-> pts, factors |-> <<f>>]
                            ELSE [score |-> 0, factors |-> << >>]
        b1 == b(15, 40, "spread extremely narrow")
        b2 == b(20, 30, "spread dangerously narrow")
        b3 == b(25, 20, "spread at the warning line")
        b4 == b(30, 10, "spread at a low level")
    IN  [score |-> b1.score + b2.score + b3.score + b4.score,
         factors |-> b1.factors \o b2.factors \o b3.factors \o b4.factors]

\* the divergence part comparing with >= instead of >
divergence_risk_Geq(divergence_result) ==
    IF get(divergence_result, "divergence_detected", FALSE)
    THEN LET div_score == RatAbs(get(divergence_result, "divergence_score", RatInt(0)))
         IN  IF RatLeq(RatInt(20), div_score)
                 THEN [score |-> 30, factors |-> <<"severe divergence">>]
             ELSE IF RatLeq(RatInt(10), div_score)
                 THEN [score |-> 20, factors |-> <<"clear divergence">>]
             ELSE [score |-> 10, factors |-> <<"slight divergence">>]
    ELSE [score |-> 0, factors |-> << >>]

\* the spread part (0-40 points): spread in tenths of a percent, 5.0 when
\* spread_stats has no 'current'
spread_risk(spread_stats) ==
    LET spread == get(spread_stats, "current", 50)
    IN  IF FloatLeq(spread, 15)
            THEN [score |-> 40, factors |-> <<"spread extremely narrow">>]
        ELSE IF FloatLeq(spread, 20)
            THEN [score |-> 30, factors |-> <<"spread dangerously narrow">>]
        ELSE IF FloatLeq(spread, 25)
            THEN [score |-> 20, factors |-> <<"spread at the warning line">>]
        ELSE IF FloatLeq(spread, 30)
            THEN [score |-> 10, factors |-> <<"spread at a low level">>]
        ELSE [score |-> 0, factors |-> << >>]

\* the volatility part (0-30 points): hv_percentile in percent, 50 when
\* vol_stats has no 'hv_percentile'
volatility_risk(vol_stats) ==
    LET hv_percentile == get(vol_stats, "hv_percentile", 50)
    IN  IF hv_percentile >= 95
            THEN [score |-> 30, factors |-> <<"volatility extreme">>]
        ELSE IF hv_percentile >= 80
            THEN [score |-> 20, factors |-> <<"volatility high">>]
        ELSE IF hv_percentile >= 60
            THEN [score |-> 10, factors |-> <<"volatility rising">>]
        ELSE [score |-> 0, factors |-> << >>]

\* the divergence part that compares the signed score
divergence_risk_Signed(divergence_result) ==
    IF get(divergence_result, "divergence_detected", FALSE)
    THEN LET div_score == get(divergence_result, "divergence_score", RatInt(0))
         IN  IF RatLess(RatInt(20), div_score)
                 THEN [score |-> 30, factors |-> <<"severe divergence">>]
             ELSE IF RatLess(RatInt(10), div_score)
                 THEN [score |-> 20, factors |-> <<"clear divergence">>]
             ELSE [score |-> 10, factors |-> <<"slight divergence">>]
    ELSE [score |-> 0, factors |-> << >>]

\* the divergence part (0-30 points): divergence_score is a rational
divergence_risk(divergence_result) ==
    IF get(divergence_result, "divergence_detected", FALSE)
    THEN LET div_score == RatAbs(get(divergence_result, "divergence_score", RatInt(0)))
         IN  IF RatLess(RatInt(20), div_score)
                 THEN [score |-> 30, factors |-> <<"severe divergence">>]
             ELSE IF RatLess(RatInt(10), div_score)
                 THEN [score |-> 20, factors |-> <<"clear divergence">>]
             ELSE [score |-> 10, factors |-> <<"slight divergence">>]
    ELSE [score |-> 0, factors |-> << >>]

\* calculate_composite_risk_score: (score, factors)
calculate_composite_risk_score(spread_stats, vol_stats, divergence_result) ==
    LET s == spread_risk(spread_stats)
        v == volatility_risk(vol_stats)
        d == divergence_risk(divergence_result)
    IN  [score |-> 0 + s.score + v.score + d.score,
         factors |-> s.factors \o v.factors \o d.factors]

----------------------------------------------------------------------------
(* Inputs of calculate_composite_risk_score *)

RiskSpreads == {0 - 5, 10, 15, 16, 20, 21, 25, 26, 30, 31, 50, NaN}
RiskPercentiles == {0, 50, 59, 60, 79, 80, 94, 95, 97, 100}
RiskDivScores ==
    {RatInt(0 - 25), Rat(0 - 41, 2), RatInt(0 - 20), RatInt(0 - 15),
     RatInt(0 - 10), RatInt(0 - 5), RatInt(0), RatInt(25)}

\* every spread_stats with or without 'current'
SpreadStatsInputs == {EmptyDict} \cup {[current |-> x] : x \in RiskSpreads}

\* every vol_stats with or without 'hv_percentile'
VolStatsInputs == {EmptyDict} \cup {[hv_percentile |-> x] : x \in RiskPercentiles}

\* every divergence result with or without its two keys
DivergenceInputs ==
    {EmptyDict}
    \cup {[divergence_detected |-> b] : b \in BOOLEAN}
    \cup {[divergence_score |-> x] : x \in RiskDivScores}
    \cup {[divergence_detected |-> b, divergence_score |-> x] :
             b \in BOOLEAN, x \in RiskDivScores}

----------------------------------------------------------------------------
(* The risk aggregator as a state machine *)

InitRisk ==
    /\ ALERT_THRESHOLDS = BaseThresholds
    /\ call = "none"
    /\ args = << >>
    /\ ret = << >>

CalculateCompositeRiskScore ==
    /\ call = "none"
    /\ \E spread_stats \in SpreadStatsInputs, vol_stats \in VolStatsInputs,
          divergence_result \in DivergenceInputs :
           /\ call' = "calculate_composite_risk_score"
           /\ args' = [spread_stats |-> spread_stats, vol_stats |-> vol_stats,
                       divergence_result |-> divergence_result]
           /\ ret' = calculate_composite_risk_score(spread_stats, vol_stats,
                                                    divergence_result)
           /\ UNCHANGED ALERT_THRESHOLDS

NextRisk == CalculateCompositeRiskScore \/ Return

SpecRisk == InitRisk /\ [][NextRisk]_vars

----------------------------------------------------------------------------
(* src/indicators/divergence.py: relative strength and divergence *)

\* A price DataFrame is a sequence of rows [date, Close] with strictly
\* increasing dates and positive closes; the empty sequence is the empty
\* frame.
Close(df) == [i \in 1..Len(df) |-> df[i].Close]
Index(df) == {df[i].date : i \in 1..Len(df)}

\* df.loc[idx]: the rows whose date is in idx
loc(df, idx) == SelectSeq(df, LAMBDA r : r.date \in idx)

\* the change over fewer rows where `periods` rows are not there yet
pct_change_FromFirst(close, periods) ==
    [i \in 1..Len(close) |->
        IF i <= periods THEN Rat(close[i] - close[1], close[1])
        ELSE Rat(close[i] - close[i - periods], close[i - periods])]

\* Series.pct_change(periods), periods > 0: undefined on the first `periods`
\* rows, close[i] / close[i - periods] - 1 after
pct_change(close, periods) ==
    [i \in 1..Len(close) |->
        IF i <= periods THEN RatNaN
        ELSE Rat(close[i] - close[i - periods], close[i - periods])]

\* the bench returns taken over one bar whatever the window
calculate_relative_strength_OneBar(asset, benchmark, window) ==
    IF Len(asset) = 0 \/ Len(benchmark) = 0 THEN << >>
    ELSE LET common_idx == Index(asset) \cap Index(benchmark)
             asset_close == Close(loc(asset, common_idx))
             bench_close == Close(loc(benchmark, common_idx))
             asset_returns == pct_change(asset_close, window)
             bench_returns == pct_change(bench_close, 1)
         IN  [i \in 1..Len(asset_close) |->
                IF IsRatNaN(asset_returns[i]) \/ IsRatNaN(bench_returns[i])
                THEN RatNaN
                ELSE RatMul(RatSub(asset_returns[i], bench_returns[i]), RatInt(100))]

\* calculate_relative_strength: the series over the common dates, in percent
calculate_relative_strength(asset, benchmark, window) ==
    IF Len(asset) = 0 \/ Len(benchmark) = 0 THEN << >>
    ELSE LET common_idx == Index(asset) \cap Index(benchmark)
             asset_close == Close(loc(asset, common_idx))
             bench_close == Close(loc(benchmark, common_idx))
             asset_returns == pct_change(asset_close, window)
             bench_returns == pct_change(bench_close, window)
         IN  [i \in 1..Len(asset_close) |->
                IF IsRatNaN(asset_returns[i]) \/ IsRatNaN(bench_returns[i])
                THEN RatNaN
                ELSE RatMul(RatSub(asset_returns[i], bench_returns[i]), RatInt(100))]

\* (close.iloc[-1] / close.iloc[-window] - 1) * 100 if len(close) > window
\* else 0, for window > 0
recent_return(close, window) ==
    IF Len(close) > window
    THEN RatMul(Rat(close[Len(close)] - close[Len(close) - window + 1],
                    close[Len(close) - window + 1]),
                RatInt(100))
    ELSE RatInt(0)

\* the last relative strength, 0 when it is undefined
current_relative_strength(rs) ==
    IF IsRatNaN(rs[Len(rs)]) THEN RatInt(0) ELSE rs[Len(rs)]

is_divergent_NoBenchGuard(bench_return, current_rs) ==
    RatLess(current_rs, RatMul(ALERT_THRESHOLDS.DIVERGENCE_THRESHOLD, RatInt(100)))

\* the test of line 165: the benchmark is steady or up and the asset
\* underperforms it
is_divergent(bench_return, current_rs) ==
    /\ RatLeq(RatInt(0 - 2), bench_return)
    /\ RatLess(current_rs, RatMul(ALERT_THRESHOLDS.DIVERGENCE_THRESHOLD, RatInt(100)))

np_mean_Abs(xs) == RatAbs(RatDiv(RatSum(xs), RatInt(Len(xs))))

\* np.mean of a non-empty list
np_mean(xs) == RatDiv(RatSum(xs), RatInt(Len(xs)))

\* detect_divergence for window > 0.  high_beta_assets is the dict as the
\* sequence of its items [ticker, df] in insertion order.
detect_divergence(high_beta_assets, benchmark, window) ==
    LET bench_return == recent_return(Close(benchmark), window)
        rs(i) == calculate_relative_strength(high_beta_assets[i].df, benchmark, window)
        \* the iterations that reach line 156
        kept(i) == Len(high_beta_assets[i].df) # 0 /\ Len(rs(i)) # 0
        current_rs(i) == current_relative_strength(rs(i))
        asset_return(i) == recent_return(Close(high_beta_assets[i].df), window)
        items == [i \in 1..Len(high_beta_assets) |-> i]
        flagged == SelectSeq(items,
                       LAMBDA i : kept(i) /\ is_divergent(bench_return, current_rs(i)))
        divergence_scores == [k \in 1..Len(flagged) |-> current_rs(flagged[k])]
        details == [k \in 1..Len(flagged) |->
                       [ticker |-> high_beta_assets[flagged[k]].ticker,
                        relative_strength |-> current_rs(flagged[k]),
                        asset_return |-> asset_return(flagged[k]),
                        message |-> RatAbs(current_rs(flagged[k]))]]
        performed == {i \in 1..Len(high_beta_assets) : kept(i)}
        high_beta_performance ==
            [t \in {high_beta_assets[i].ticker : i \in performed} |->
                asset_return(CHOOSE i \in performed : high_beta_assets[i].ticker = t)]
    IN  IF Len(benchmark) = 0
        THEN [divergence_detected |-> FALSE,
              divergence_score |-> RatInt(0),
              details |-> << >>,
              benchmark_performance |-> RatInt(0),
              high_beta_performance |-> EmptyDict]
        ELSE [divergence_detected |-> Len(divergence_scores) # 0,
              divergence_score |-> IF Len(divergence_scores) # 0
                                   THEN np_mean(divergence_scores) ELSE RatInt(0),
              details |-> details,
              benchmark_performance |-> bench_return,
              high_beta_performance |-> high_beta_performance]

----------------------------------------------------------------------------
(* Inputs of the divergence analyzer *)

\* the frame on the dates `dates` (increasing) that closes at p2 on the last
\* date, at p1 on the one before and at p0 earlier
Frame(dates, p0, p1, p2) ==
    [i \in 1..Len(dates) |->
        [date |-> dates[i],
         Close |-> IF i = Len(dates) THEN p2
                   ELSE IF i = Len(dates) - 1 THEN p1 ELSE p0]]

\* the dates 1..n
Contiguous(n) == [i \in 1..n |-> i]

\* the dates 1..n without the one before last
Gappy(n) == [i \in 1..(n - 1) |-> IF i = n - 1 THEN n ELSE i]

\* two dates after every benchmark date
Later == <<MaxDates + 1, MaxDates + 2>>

BenchmarkFrames ==
    {Frame(Contiguous(n), 100, p1, p2) :
        n \in 0..MaxDates, p1 \in {100, 110}, p2 \in {97, 98, 100, 110}}

AssetDates == {Contiguous(n) : n \in 0..MaxDates} \cup {Gappy(MaxDates), Later}

AssetFrames ==
    {Frame(d, 100, p1, p2) :
        d \in AssetDates, p1 \in {100, 110}, p2 \in {80, 94, 95, 100, 110}}

SecondAssetFrames ==
    {Frame(Contiguous(n), 100, 100, p2) : n \in {0, MaxDates}, p2 \in {70, 100}}

\* the dicts of at most two assets
HighBetaAssets ==
    {<< >>}
    \cup {<<[ticker |-> "BTC-USD", df |-> a]>> : a \in AssetFrames}
    \cup {<<[ticker |-> "BTC-USD", df |-> a], [ticker |-> "EEM", df |-> b]>> :
             a \in AssetFrames, b \in SecondAssetFrames}

\* the configurations of the divergence threshold, a negative fraction
DivergenceConfigs ==
    {[BaseThresholds EXCEPT !.DIVERGENCE_THRESHOLD = t] :
        t \in {Rat(0 - 5, 100), Rat(0 - 10, 100)}}

----------------------------------------------------------------------------
(* The divergence analyzer as a state machine *)

InitDivergence ==
    /\ ALERT_THRESHOLDS \in DivergenceConfigs
    /\ call = "none"
    /\ args = << >>
    /\ ret = << >>

DetectDivergence ==
    /\ call = "none"
    /\ \E high_beta_assets \in HighBetaAssets, benchmark \in BenchmarkFrames,
          window \in 1..MaxWindow :
           /\ call' = "detect_divergence"
           /\ args' = [high_beta_assets |-> high_beta_assets, benchmark |-> benchmark,
                       window |-> window]
           /\ ret' = detect_divergence(high_beta_assets, benchmark, window)
           /\ UNCHANGED ALERT_THRESHOLDS

CalculateRelativeStrength ==
    /\ call = "none"
    /\ \E asset \in AssetFrames \cup BenchmarkFrames, benchmark \in BenchmarkFrames,
          window \in 1..MaxWindow :
           /\ call' = "calculate_relative_strength"
           /\ args' = [asset |-> asset, benchmark |-> benchmark, window |-> window]
           /\ ret' = calculate_relative_strength(asset, benchmark, window)
           /\ UNCHANGED ALERT_THRESHOLDS

NextDivergence == DetectDivergence \/ CalculateRelativeStrength \/ Return

SpecDivergence == InitDivergence /\ [][NextDivergence]_vars

----------------------------------------------------------------------------
(* src/indicators/divergence.py: beta and liquidity retreat *)

\* default window of calculate_beta
BETA_WINDOW == 60

\* fewest aligned closes calculate_beta computes a beta from
BETA_MIN_OBSERVATIONS == 20

\* window of the relative strength analyze_liquidity_retreat reads
RETREAT_RS_WINDOW == 5

\* close.pct_change().dropna(): the bar-to-bar returns
daily_returns(close) ==
    [i \in 1..(Len(close) - 1) |-> Rat(close[i + 1] - close[i], close[i])]

\* Series.cov(other), the sample covariance (ddof = 1), of two series of
\* the same dates: sum((x - mean x)(y - mean y)) / (n - 1), which is
\* (n sum(xy) - sum(x) sum(y)) / (n (n - 1)); with dx and dy the common
\* denominators of x and of y the sums are sums of integers
cov(x, y) ==
    LET n == Len(x)
        dx == LcmSeq([i \in 1..n |-> x[i].den])
        dy == LcmSeq([i \in 1..n |-> y[i].den])
        xs == [i \in 1..n |-> x[i].num * (dx \div x[i].den)]
        ys == [i \in 1..n |-> y[i].num * (dy \div y[i].den)]
        sxy == IntSum([i \in 1..n |-> xs[i] * ys[i]])
    IN  Rat(n * sxy - IntSum(xs) * IntSum(ys), n * (n - 1) * dx * dy)

\* Series.var(), the sample variance
var(x) == cov(x, x)

\* calculate_beta that also falls back on exactly 20 aligned closes
calculate_beta_AtMost(asset, benchmark, window) ==
    IF Len(asset) = 0 \/ Len(benchmark) = 0 THEN RatInt(1)
    ELSE LET common_idx == Index(asset) \cap Index(benchmark)
             asset_close == tail(Close(loc(asset, common_idx)), window)
             bench_close == tail(Close(loc(benchmark, common_idx)), window)
         IN  IF Len(asset_close) <= BETA_MIN_OBSERVATIONS THEN RatInt(1)
             ELSE LET asset_returns == daily_returns(asset_close)
                      bench_returns == daily_returns(bench_close)
                      covariance == cov(asset_returns, bench_returns)
                      variance == var(bench_returns)
                  IN  IF variance = RatInt(0) THEN RatInt(1)
                      ELSE RatDiv(covariance, variance)

\* calculate_beta over the trailing `window` aligned closes
calculate_beta(asset, benchmark, window) ==
    IF Len(asset) = 0 \/ Len(benchmark) = 0 THEN RatInt(1)
    ELSE LET common_idx == Index(asset) \cap Index(benchmark)
             asset_close == tail(Close(loc(asset, common_idx)), window)
             bench_close == tail(Close(loc(benchmark, common_idx)), window)
         IN  IF Len(asset_close) < BETA_MIN_OBSERVATIONS THEN RatInt(1)
             ELSE LET asset_returns == daily_returns(asset_close)
                      bench_returns == daily_returns(bench_close)
                      covariance == cov(asset_returns, bench_returns)
                      variance == var(bench_returns)
                  IN  IF variance = RatInt(0) THEN RatInt(1)
                      ELSE RatDiv(covariance, variance)

\* the metrics of the assets that are not empty, in dict order
asset_metrics_of(assets, benchmark) ==
    LET nonempty == SelectSeq(assets, LAMBDA a : Len(a.df) # 0)
    IN  [k \in 1..Len(nonempty) |->
            LET df == nonempty[k].df
                rs == calculate_relative_strength(df, benchmark, RETREAT_RS_WINDOW)
            IN  [ticker |-> nonempty[k].ticker,
                 beta |-> calculate_beta(df, benchmark, BETA_WINDOW),
                 relative_strength_5d |->
                     IF Len(rs) > 0 /\ ~IsRatNaN(rs[Len(rs)])
                     THEN rs[Len(rs)] ELSE RatInt(0)]]

\* x put into a list sorted by beta, descending, after the entries whose
\* beta is not smaller
RECURSIVE insert_by_beta(_, _)
insert_by_beta(x, sorted) ==
    IF Len(sorted) = 0 THEN <<x>>
    ELSE IF RatLess(sorted[1].beta, x.beta) THEN <<x>> \o sorted
    ELSE <<sorted[1]>> \o insert_by_beta(x, Tail(sorted))

RECURSIVE sort_ascending(_)
sort_ascending(asset_metrics) ==
    IF Len(asset_metrics) = 0 THEN << >>
    ELSE LET rest == sort_ascending(SubSeq(asset_metrics, 1, Len(asset_metrics) - 1))
             x == asset_metrics[Len(asset_metrics)]
             before == SelectSeq(rest, LAMBDA y : RatLeq(y.beta, x.beta))
             after == SelectSeq(rest, LAMBDA y : RatLess(x.beta, y.beta))
         IN  before \o <<x>> \o after

\* asset_metrics.sort(key=beta, reverse=True): stable, equal betas keep
\* their order
RECURSIVE sort_by_beta_descending(_)
sort_by_beta_descending(asset_metrics) ==
    IF Len(asset_metrics) = 0 THEN << >>
    ELSE insert_by_beta(
             asset_metrics[Len(asset_metrics)],
             sort_by_beta_descending(SubSeq(asset_metrics, 1, Len(asset_metrics) - 1)))

\* lines 308 and 311
is_high_beta_underperforming(asset) ==
    /\ RatLess(Rat(12, 10), asset.beta)
    /\ RatLess(asset.relative_strength_5d, RatInt(0 - 5))

is_low_beta_stable(asset) ==
    /\ ~is_high_beta_underperforming(asset)
    /\ RatLess(asset.beta, RatInt(1))
    /\ RatLess(RatInt(0 - 2), asset.relative_strength_5d)

\* the pattern with a single underperformer accepted
retreat_pattern_OneUnderperformer(high_beta_underperforming, low_beta_stable) ==
    high_beta_underperforming >= 1 /\ low_beta_stable >= 1

\* line 315
retreat_pattern(high_beta_underperforming, low_beta_stable) ==
    high_beta_underperforming >= 2 /\ low_beta_stable >= 1

\* analyze_liquidity_retreat; assets is the dict as the sequence of its items
analyze_liquidity_retreat(assets, benchmark) ==
    LET asset_metrics == sort_by_beta_descending(asset_metrics_of(assets, benchmark))
        under == SelectSeq(asset_metrics, is_high_beta_underperforming)
        high_beta_underperforming == Len(under)
        low_beta_stable == Len(SelectSeq(asset_metrics, is_low_beta_stable))
        detected == retreat_pattern(high_beta_underperforming, low_beta_stable)
    IN  [retreat_detected |-> detected,
         retreat_order |-> [k \in 1..Len(under) |-> under[k].ticker],
         severity |-> IF detected
                      THEN (IF high_beta_underperforming >= 3 THEN "high" ELSE "medium")
                      ELSE "none"]

----------------------------------------------------------------------------
(* Inputs of analyze_liquidity_retreat *)

\* the frame of n dates 1..n that closes at a0, then a1, then a2 up to the
\* date before last, and al on the last date
RetreatFrame(n, a0, a1, a2, al) ==
    [i \in 1..n |->
        [date |-> i,
         Close |-> IF i = 1 THEN a0 ELSE IF i = 2 THEN a1
                   ELSE IF i = n THEN al ELSE a2]]

\* the benchmark that doubles on the second of 20 dates and is flat after
RetreatBenchmark == RetreatFrame(20, 100, 200, 200, 200)

\* Against RetreatBenchmark:
\*   FrameA  beta 3/2,     5-day relative strength -8
\*   FrameB  beta 7/10,    0
\*   FrameC  beta 9/5,     -10
\*   FrameD  beta 323/180, 0           (high beta, not underperforming)
\*   FrameE  beta 538/765, -100/17     (low beta, not stable)
\*   FrameJ  beta 6/5,     -10         (beta on the cutoff 1.2)
\*   FrameShort: 19 dates, the fallback beta 1, -10
\*   the benchmark itself: beta 1, 0   (beta on the cutoff 1.0)
FrameA == RetreatFrame(20, 500, 1250, 1350, 1242)
FrameB == RetreatFrame(20, 100, 170, 170, 170)
FrameC == RetreatFrame(20, 100, 285, 570, 513)
FrameD == RetreatFrame(20, 100, 285, 570, 570)
FrameE == RetreatFrame(20, 100, 170, 170, 160)
FrameJ == RetreatFrame(20, 100, 225, 450, 405)
FrameShort == RetreatFrame(19, 100, 285, 570, 513)

RetreatFrames ==
    {FrameA, FrameB, FrameC, FrameD, FrameE, FrameJ, FrameShort,
     RetreatBenchmark, << >>}

\* the frames of the third and later assets
MoreRetreatFrames == {FrameA, FrameB, FrameC}

RetreatBenchmarks ==
    {RetreatBenchmark, RetreatFrame(20, 100, 100, 100, 100), << >>}

Tickers == <<"A", "B", "C", "D", "E", "F">>

\* the dicts of n assets: the first two of any frame
RetreatAssets(n) ==
    {[k \in 1..n |-> [ticker |-> Tickers[k], df |-> f[k]]] :
        f \in {g \in [1..n -> RetreatFrames] :
                  \A k \in 1..n : k > 2 => g[k] \in MoreRetreatFrames}}

----------------------------------------------------------------------------
(* The liquidity-retreat analysis as a state machine *)

InitRetreat ==
    /\ ALERT_THRESHOLDS = BaseThresholds
    /\ call = "none"
    /\ args = << >>
    /\ ret = << >>

AnalyzeLiquidityRetreat ==
    /\ call = "none"
    /\ \E n \in 0..MaxAssets, benchmark \in RetreatBenchmarks :
           \E assets \in RetreatAssets(n) :
               /\ call' = "analyze_liquidity_retreat"
               /\ args' = [assets |-> assets, benchmark |-> benchmark]
               /\ ret' = analyze_liquidity_retreat(assets, benchmark)
               /\ UNCHANGED ALERT_THRESHOLDS

NextRetreat == AnalyzeLiquidityRetreat \/ Return

SpecRetreat == InitRetreat /\ [][NextRetreat]_vars

----------------------------------------------------------------------------
(* src/indicators/spread.py: statistics, trend and velocity *)

\* the slope threshold of get_spread_trend, 0.01 percent a day, in tenths
\* of a percent
TREND_THRESHOLD == [num |-> 1, den |-> 10]

\* Series.std() (ddof = 1): the square root of the sample variance, kept as
\* the variance it is the root of; NaN for a single observation
std(spread) ==
    IF Len(spread) < 2 THEN RatNaN
    ELSE [sqrt_of |-> var([i \in 1..Len(spread) |-> RatInt(spread[i])])]

\* (spread < current_spread).sum() / len(spread) * 100
percentile_of_Leq(spread, current_spread) ==
    Rat(100 * Cardinality({i \in 1..Len(spread) : spread[i] <= current_spread}),
        Len(spread))

percentile_of(spread, current_spread) ==
    Rat(100 * Cardinality({i \in 1..Len(spread) : spread[i] < current_spread}),
        Len(spread))

\* spread.iloc[-1] - spread.iloc[-k] if len(spread) > n else 0
change_OneMore(spread, k, n) ==
    IF Len(spread) > n + 1 THEN spread[Len(spread)] - spread[Len(spread) - k + 1]
    ELSE 0

change(spread, k, n) ==
    IF Len(spread) > n THEN spread[Len(spread)] - spread[Len(spread) - k + 1]
    ELSE 0

\* get_spread_statistics; spread_df is its Spread column
get_spread_statistics(spread_df) ==
    IF Len(spread_df) = 0 THEN EmptyDict
    ELSE LET spread == dropna(spread_df)
         IN  IF Len(spread) = 0 THEN EmptyDict
             ELSE LET current_spread == spread[Len(spread)]
                  IN  [current |-> current_spread,
                       mean |-> Rat(IntSum(spread), Len(spread)),
                       std |-> std(spread),
                       min |-> CHOOSE v \in {spread[i] : i \in 1..Len(spread)} :
                                   \A i \in 1..Len(spread) : v <= spread[i],
                       max |-> CHOOSE v \in {spread[i] : i \in 1..Len(spread)} :
                                   \A i \in 1..Len(spread) : v >= spread[i],
                       percentile |-> percentile_of(spread, current_spread),
                       change_1d |-> change(spread, 2, 1),
                       change_5d |-> change(spread, 5, 5),
                       change_20d |-> change(spread, 20, 20)]

\* np.polyfit(np.arange(len(y)), y, 1)[0]: the least-squares slope of y
\* against 0..len(y)-1, for len(y) >= 2
polyfit_slope(y) ==
    LET n == Len(y)
        sx == IntSum([i \in 1..n |-> i - 1])
        sxx == IntSum([i \in 1..n |-> (i - 1) * (i - 1)])
        sy == IntSum(y)
        sxy == IntSum([i \in 1..n |-> (i - 1) * y[i]])
    IN  Rat(n * sxy - sx * sy, n * sxx - sx * sx)

\* the classification by the slope with the two comparisons not strict
classify_slope_NotStrict(slope) ==
    IF RatLeq(slope, RatSub(RatInt(0), TREND_THRESHOLD)) THEN "narrowing"
    ELSE IF RatLeq(TREND_THRESHOLD, slope) THEN "widening"
    ELSE "oscillating"

\* lines 120 to 125; "收窄" is narrowing, "扩大" widening, "震荡" oscillating
classify_slope(slope) ==
    IF RatLess(slope, RatSub(RatInt(0), TREND_THRESHOLD)) THEN "narrowing"
    ELSE IF RatLess(TREND_THRESHOLD, slope) THEN "widening"
    ELSE "oscillating"

\* get_spread_trend where the trailing window holds 2 points or more, or
\* none (np.polyfit of no points raises TypeError); "未知" is unknown,
\* "数据不足" insufficient_data
get_spread_trend(spread_df, window) ==
    IF Len(spread_df) = 0 THEN "unknown"
    ELSE LET spread == dropna(spread_df)
         IN  IF Len(spread) < window THEN "insufficient_data"
             ELSE LET recent == tail(spread, window)
                  IN  IF Len(recent) = 0 THEN "TypeError"
                      ELSE classify_slope(polyfit_slope(recent))

----------------------------------------------------------------------------
(* Inputs of the statistics, the trend and the velocity *)

\* the flat series of n observations of 2.0 with spike added to the k-th
SpikeSeries(n, k, spike) == [i \in 1..n |-> IF i = k THEN 20 + spike ELSE 20]

\* the series of n observations that starts at 10.0 and moves by step, with
\* no value at position hole
RampSeries(n, step, hole) ==
    [i \in 1..n |-> IF i = hole THEN NaN ELSE 100 + step * i]

\* the frame calculate_yield_spread returns for n dates of a US yield us and
\* a counterpart yield of 1.5 that is missing on date hole
YieldSpread(n, us, hole) ==
    calculate_yield_spread(
        [i \in 1..n |-> us],
        [scalar |-> FALSE, series |-> [i \in 1..n |-> IF i = hole THEN NaN ELSE 15]])

\* 5-observation slopes of -0.02, -0.01, 0, 0.01, 0.02 come from spikes of
\* 0.1; 20-observation slopes of 0.01 and just above from spikes of 0.7 and
\* 0.8 at the end
Spikes == {0 - 8, 0 - 7, 0 - 1, 1, 7, 8}

StatSeries ==
    {SpreadSeries(n, a, b, c) :
        n \in 0..MaxLen, a \in SeriesValues, b \in SeriesValues, c \in {20, NaN}}
    \cup UNION {{SpikeSeries(n, k, spike) :
                    k \in {1, 2, n - 3, n - 1, n}, spike \in Spikes} :
                n \in 1..MaxLen}
    \cup {YieldSpread(n, us, hole) : n \in 0..3, us \in {40, 45}, hole \in 0..3}
    \cup UNION {{RampSeries(n, step, hole) :
                    step \in {0 - 2, 0 - 1, 0, 1}, hole \in {0, 1, n - 1, n}} :
                n \in 1..MaxLen}

TrendWindows == {5, 20}

VelocityWindows == {1, 5, 20}

----------------------------------------------------------------------------
(* Statistics, trend and velocity as a state machine *)

InitSpreadStats ==
    /\ ALERT_THRESHOLDS = BaseThresholds
    /\ call = "none"
    /\ args = << >>
    /\ ret = << >>

GetSpreadStatistics ==
    /\ call = "none"
    /\ \E spread_df \in StatSeries :
           /\ call' = "get_spread_statistics"
           /\ args' = [spread_df |-> spread_df]
           /\ ret' = get_spread_statistics(spread_df)
           /\ UNCHANGED ALERT_THRESHOLDS

GetSpreadTrend ==
    /\ call = "none"
    /\ \E spread_df \in StatSeries, window \in TrendWindows :
           /\ call' = "get_spread_trend"
           /\ args' = [spread_df |-> spread_df, window |-> window]
           /\ ret' = get_spread_trend(spread_df, window)
           /\ UNCHANGED ALERT_THRESHOLDS

CalculateSpreadVelocity ==
    /\ call = "none"
    /\ \E spread_df \in StatSeries, window \in VelocityWindows :
           /\ call' = "calculate_spread_velocity"
           /\ args' = [spread_df |-> spread_df, window |-> window]
           /\ ret' = calculate_spread_velocity(spread_df, window)
           /\ UNCHANGED ALERT_THRESHOLDS

NextSpreadStats ==
    \/ CalculateYieldSpread
    \/ GetSpreadStatistics
    \/ GetSpreadTrend
    \/ CalculateSpreadVelocity
    \/ Return

SpecSpreadStats == InitSpreadStats /\ [][NextSpreadStats]_vars

----------------------------------------------------------------------------
(* src/indicators/volatility.py: the volatility alert *)

\* an alert tuple (level, color, message); the message is the text and the
\* value formatted into it.  The texts translate
\*   "日元单日波动 {x:.2f}%"            JPY daily move
\*   "日元周波动 {x:.2f}%"              JPY weekly move
\*   "波动率处于历史极端水平 ({x:.0f}%)"  volatility at a historical extreme
\*   "波动率偏高 ({x:.0f}%)"            volatility elevated
\*   "波动率正常"                       volatility normal
alert_tuple(level, color, text, value) ==
    [level |-> level, color |-> color, message |-> <<text, value>>]

\* priority.get(level, 99)
priority(level) ==
    CASE level = "critical" -> 0
      [] level = "danger" -> 1
      [] level = "warning" -> 2
      [] OTHER -> 99

\* alerts.sort(key=priority): stable, so the k-th alert of the result is the
\* one with k - 1 alerts before it: those of smaller priority, and those of
\* equal priority appended earlier
sort_by_priority(alerts) ==
    LET before(i) ==
            Cardinality({j \in 1..Len(alerts) :
                \/ priority(alerts[j].level) < priority(alerts[i].level)
                \/ /\ priority(alerts[j].level) = priority(alerts[i].level)
                   /\ j < i})
    IN  [k \in 1..Len(alerts) |->
            alerts[CHOOSE i \in 1..Len(alerts) : before(i) = k - 1]]

\* the alerts in the order the conditions are evaluated
collect_alerts_WeeklyFirst(daily_change, weekly_change, hv_percentile) ==
    (IF Abs(weekly_change) >= ALERT_THRESHOLDS.JPY_WEEKLY_MOVE
     THEN <<alert_tuple("danger", "#FF1744", "JPY weekly move", weekly_change)>>
     ELSE << >>)
    \o (IF Abs(daily_change) >= ALERT_THRESHOLDS.JPY_DAILY_MOVE
        THEN <<alert_tuple("danger", "#FF5722", "JPY daily move", daily_change)>>
        ELSE << >>)
    \o (IF hv_percentile >= ALERT_THRESHOLDS.VOL_PERCENTILE_EXTREME
        THEN <<alert_tuple("critical", "#9C27B0", "volatility extreme", hv_percentile)>>
        ELSE IF hv_percentile >= ALERT_THRESHOLDS.VOL_PERCENTILE_HIGH
        THEN <<alert_tuple("warning", "#FFD600", "volatility elevated", hv_percentile)>>
        ELSE << >>)

collect_alerts(daily_change, weekly_change, hv_percentile) ==
    (IF Abs(daily_change) >= ALERT_THRESHOLDS.JPY_DAILY_MOVE
     THEN <<alert_tuple("danger", "#FF5722", "JPY daily move", daily_change)>>
     ELSE << >>)
    \o (IF Abs(weekly_change) >= ALERT_THRESHOLDS.JPY_WEEKLY_MOVE
        THEN <<alert_tuple("danger", "#FF1744", "JPY weekly move", weekly_change)>>
        ELSE << >>)
    \o (IF hv_percentile >= ALERT_THRESHOLDS.VOL_PERCENTILE_EXTREME
        THEN <<alert_tuple("critical", "#9C27B0", "volatility extreme", hv_percentile)>>
        ELSE IF hv_percentile >= ALERT_THRESHOLDS.VOL_PERCENTILE_HIGH
        THEN <<alert_tuple("warning", "#FFD600", "volatility elevated", hv_percentile)>>
        ELSE << >>)

\* check_volatility_alert; the changes are in tenths of a percent
check_volatility_alert(daily_change, weekly_change, hv_percentile) ==
    LET alerts == collect_alerts(daily_change, weekly_change, hv_percentile)
    IN  IF Len(alerts) > 0 THEN sort_by_priority(alerts)[1]
        ELSE alert_tuple("safe", "#00C853", "volatility normal", 0)

----------------------------------------------------------------------------
(* Inputs of check_volatility_alert *)

\* daily and weekly changes on both sides of the move thresholds, of both
\* signs, and percentiles on both sides of the percentile thresholds
DailyChanges == {0 - 30, 0 - 20, 0 - 19, 0, 19, 20, 30}
WeeklyChanges == {0 - 50, 0 - 49, 0, 49, 50}
Percentiles == {50, 79, 80, 94, 95, 100}

\* configurations of the volatility thresholds, among them one whose two
\* percentile thresholds coincide and one whose daily threshold is higher
VolatilityConfigs ==
    {[BaseThresholds EXCEPT !.JPY_DAILY_MOVE = d, !.VOL_PERCENTILE_EXTREME = e] :
        d \in {20, 30}, e \in {80, 95}}

----------------------------------------------------------------------------
(* The volatility alert as a state machine *)

InitVolatility ==
    /\ ALERT_THRESHOLDS \in VolatilityConfigs
    /\ call = "none"
    /\ args = << >>
    /\ ret = << >>

CheckVolatilityAlert ==
    /\ call = "none"
    /\ \E daily_change \in DailyChanges, weekly_change \in WeeklyChanges,
          hv_percentile \in Percentiles :
           /\ call' = "check_volatility_alert"
           /\ args' = [daily_change |-> daily_change,
                       weekly_change |-> weekly_change,
                       hv_percentile |-> hv_percentile]
           /\ ret' = check_volatility_alert(daily_change, weekly_change, hv_percentile)
           /\ UNCHANGED ALERT_THRESHOLDS

NextVolatility == CheckVolatilityAlert \/ Return

SpecVolatility == InitVolatility /\ [][NextVolatility]_vars

----------------------------------------------------------------------------
(* src/indicators/volatility.py: historical volatility and its percentile *)

\* most prices in a frame, and most entries in a volatility series
MaxPrices == 22
MaxVolLen == 4

\* trading days in a year
TRADING_DAYS == 252

\* largest exponent of a close, which is a power of 2
MaxExp == 4

RECURSIVE Pow2(_)
Pow2(k) == IF k = 0 THEN 1 ELSE 2 * Pow2(k - 1)

\* np.log of a ratio of closes, in units of ln 2: the closes of the frames
\* below are powers of 2, so the ratio is 2^k and its logarithm k ln 2
log2(num, den) ==
    CHOOSE k \in (0 - MaxExp)..MaxExp :
        IF k >= 0 THEN num = den * Pow2(k) ELSE num * Pow2(0 - k) = den

\* np.log(close / close.shift(1)): undefined on the first row
log_returns_of(close) ==
    [i \in 1..Len(close) |-> IF i = 1 THEN NaN ELSE log2(close[i], close[i - 1])]

\* the sample variance (ddof = 1) of a sequence of at least two integers
sample_variance(xs) ==
    LET n == Len(xs)
    IN  Rat(n * IntSum([i \in 1..n |-> xs[i] * xs[i]]) - IntSum(xs) * IntSum(xs),
            n * (n - 1))

\* the rolling window that needs one observation fewer
rolling_std_squared_Short(x, window) ==
    [i \in 1..Len(x) |->
        IF i < window THEN RatNaN
        ELSE LET w == dropna(SubSeq(x, i - window + 1, i))
             IN  IF Len(w) < window - 1 \/ Len(w) < 2 THEN RatNaN
                 ELSE sample_variance(w)]

\* x.rolling(window=window).std(), squared: min_periods is window, so the
\* value at a row is undefined unless the window's rows are all defined, and
\* a window of one observation has no standard deviation
rolling_std_squared(x, window) ==
    [i \in 1..Len(x) |->
        IF i < window THEN RatNaN
        ELSE LET w == dropna(SubSeq(x, i - window + 1, i))
             IN  IF Len(w) < window \/ Len(w) < 2 THEN RatNaN
                 ELSE sample_variance(w)]

\* calculate_historical_volatility.  A volatility v is kept as the rational
\* q with v = sqrt(q) * ln 2: the order of volatilities is the order of
\* their q, and v is defined and non-negative iff q is.
calculate_historical_volatility(prices, window) ==
    IF Len(prices) = 0 THEN << >>
    ELSE LET log_returns == log_returns_of(Close(prices))
             variance == rolling_std_squared(log_returns, window)
         IN  [i \in 1..Len(prices) |->
                 IF IsRatNaN(variance[i]) THEN RatNaN
                 ELSE RatMul(variance[i], RatInt(TRADING_DAYS * 100 * 100))]

\* the percentile counting the observations not above the latest
vol_percentile_of_Leq(recent_vol) ==
    Rat(100 * Cardinality({i \in 1..Len(recent_vol) :
                              RatLeq(recent_vol[i], recent_vol[Len(recent_vol)])}),
        Len(recent_vol))

\* (recent_vol < current_vol).sum() / len(recent_vol) * 100
vol_percentile_of(recent_vol) ==
    Rat(100 * Cardinality({i \in 1..Len(recent_vol) :
                              RatLess(recent_vol[i], recent_vol[Len(recent_vol)])}),
        Len(recent_vol))

\* get_volatility_percentile for lookback >= 0
get_volatility_percentile(volatility, lookback) ==
    LET lb == IF Len(volatility) < lookback THEN Len(volatility) ELSE lookback
    IN  IF lb = 0 THEN RatInt(50)
        ELSE LET recent_vol == SelectSeq(tail(volatility, lb), LAMBDA v : ~IsRatNaN(v))
             IN  IF Len(recent_vol) = 0 THEN RatInt(50)
                 ELSE vol_percentile_of(recent_vol)

----------------------------------------------------------------------------
(* Inputs of the volatility series functions *)

\* the frame of n dates whose close is 2^base, and 2^(base + move) on the
\* dates k and every period-th date after it
PriceFrame(n, base, move, k, period) ==
    [i \in 1..n |->
        [date |-> i,
         Close |-> IF i >= k /\ (i - k) % period = 0
                   THEN Pow2(base + move) ELSE Pow2(base)]]

PriceFrames ==
    UNION {{PriceFrame(n, 2, move, k, period) :
               move \in {0 - 2, 1}, k \in {1, 2, n - 1, n, n + 1}, period \in {2, MaxPrices}} :
           n \in 0..MaxPrices}

VolWindows == {2, 20}

VolValues == {RatInt(10), RatInt(20), RatNaN}

VolSeries == UNION {[1..n -> VolValues] : n \in 0..MaxVolLen}

Lookbacks == {0, 1, 2, 3, 252}

----------------------------------------------------------------------------
(* The volatility series functions as a state machine *)

InitVolSeries ==
    /\ ALERT_THRESHOLDS = BaseThresholds
    /\ call = "none"
    /\ args = << >>
    /\ ret = << >>

CalculateHistoricalVolatility ==
    /\ call = "none"
    /\ \E prices \in PriceFrames, window \in VolWindows :
           /\ call' = "calculate_historical_volatility"
           /\ args' = [prices |-> prices, window |-> window]
           /\ ret' = calculate_historical_volatility(prices, window)
           /\ UNCHANGED ALERT_THRESHOLDS

GetVolatilityPercentile ==
    /\ call = "none"
    /\ \E volatility \in VolSeries, lookback \in Lookbacks :
           /\ call' = "get_volatility_percentile"
           /\ args' = [volatility |-> volatility, lookback |-> lookback]
           /\ ret' = get_volatility_percentile(volatility, lookback)
           /\ UNCHANGED ALERT_THRESHOLDS

NextVolSeries == CalculateHistoricalVolatility \/ GetVolatilityPercentile \/ Return

SpecVolSeries == InitVolSeries /\ [][NextVolSeries]_vars

----------------------------------------------------------------------------
(* src/indicators/divergence.py: the divergence alert, and beta on its own *)

\* get_divergence_alert with critical from -20 down, -20 included
get_divergence_alert_Leq(divergence_result) ==
    IF ~get(divergence_result, "divergence_detected", FALSE)
    THEN alert_tuple("safe", "#00C853", "no clear divergence", 0)
    ELSE LET score == get(divergence_result, "divergence_score", RatInt(0))
         IN  IF RatLeq(score, RatInt(0 - 20))
             THEN alert_tuple("critical", "#9C27B0", "severe divergence", score)
             ELSE IF RatLess(score, RatInt(0 - 10))
             THEN alert_tuple("danger", "#FF1744", "marked divergence", score)
             ELSE alert_tuple("warning", "#2979FF", "mild divergence", score)

\* get_divergence_alert: the (level, color, message) of a divergence
\* result; the message is its text and the score formatted into it.  The
\* texts translate
\*   "未检测到明显背离"                          no clear divergence
\*   "严重背离：高贝塔资产大幅跑输大盘 ({x:.1f}%)"  severe divergence
\*   "显著背离：高贝塔资产明显跑输 ({x:.1f}%)"      marked divergence
\*   "轻度背离：关注高贝塔资产走势 ({x:.1f}%)"      mild divergence
get_divergence_alert(divergence_result) ==
    IF ~get(divergence_result, "divergence_detected", FALSE)
    THEN alert_tuple("safe", "#00C853", "no clear divergence", 0)
    ELSE LET score == get(divergence_result, "divergence_score", RatInt(0))
         IN  IF RatLess(score, RatInt(0 - 20))
             THEN alert_tuple("critical", "#9C27B0", "severe divergence", score)
             ELSE IF RatLess(score, RatInt(0 - 10))
             THEN alert_tuple("danger", "#FF1744", "marked divergence", score)
             ELSE alert_tuple("warning", "#2979FF", "mild divergence", score)

\* a frame on later dates: its index is shifted by k
ShiftFrame(df, k) == [i \in 1..Len(df) |-> [date |-> df[i].date + k, Close |-> df[i].Close]]

\* 21 dates: with window 20 the first close is outside the window
FrameLong == RetreatFrame(21, 100, 285, 570, 513)
BenchmarkLong == RetreatFrame(21, 100, 200, 200, 150)

BetaFrames ==
    RetreatFrames \cup {FrameLong, ShiftFrame(FrameA, 1), ShiftFrame(FrameLong, 1)}

BetaBenchmarks == RetreatBenchmarks \cup {BenchmarkLong}

BetaWindows == {19, 20, 21, BETA_WINDOW}

----------------------------------------------------------------------------
(* The divergence alert and beta as a state machine *)

InitBeta ==
    /\ ALERT_THRESHOLDS = BaseThresholds
    /\ call = "none"
    /\ args = << >>
    /\ ret = << >>

GetDivergenceAlert ==
    /\ call = "none"
    /\ \E divergence_result \in DivergenceInputs :
           /\ call' = "get_divergence_alert"
           /\ args' = [divergence_result |-> divergence_result]
           /\ ret' = get_divergence_alert(divergence_result)
           /\ UNCHANGED ALERT_THRESHOLDS

CalculateBeta ==
    /\ call = "none"
    /\ \E asset \in BetaFrames, benchmark \in BetaBenchmarks, window \in BetaWindows :
           /\ call' = "calculate_beta"
           /\ args' = [asset |-> asset, benchmark |-> benchmark, window |-> window]
           /\ ret' = calculate_beta(asset, benchmark, window)
           /\ UNCHANGED ALERT_THRESHOLDS

NextBeta == GetDivergenceAlert \/ CalculateBeta \/ Return

SpecBeta == InitBeta /\ [][NextBeta]_vars

----------------------------------------------------------------------------
(* src/indicators/volatility.py: average true range and weekly range *)

\* most bars in an OHLC frame
MaxBars == 5

\* fewest bars calculate_weekly_range computes a range from
WEEKLY_BARS == 5

\* the results of a float division by zero
PosInf == [num |-> 1, den |-> 0]
NegInf == [num |-> 0 - 1, den |-> 0]

\* whether a float is neither infinite nor undefined
IsFinite(p) == p.den # 0

\* numerator / denominator in floats: a division by zero raises nothing
\* and gives an infinity, or the undefined value for 0 / 0
float_divide(numerator, denominator) ==
    IF denominator # 0 THEN Rat(numerator, denominator)
    ELSE IF numerator > 0 THEN PosInf
    ELSE IF numerator < 0 THEN NegInf
    ELSE RatNaN

Max2(a, b) == IF a < b THEN b ELSE a
SeqMax(s) == CHOOSE x \in {s[i] : i \in 1..Len(s)} : \A i \in 1..Len(s) : s[i] <= x
SeqMin(s) == CHOOSE x \in {s[i] : i \in 1..Len(s)} : \A i \in 1..Len(s) : x <= s[i]

High(df) == [i \in 1..Len(df) |-> df[i].High]
Low(df) == [i \in 1..Len(df) |-> df[i].Low]

\* calculate_weekly_range of a frame with High and Low columns
calculate_weekly_range(prices) ==
    IF Len(prices) = 0 \/ Len(prices) < WEEKLY_BARS THEN RatInt(0)
    ELSE LET recent == tail(prices, WEEKLY_BARS)
             high == SeqMax(High(recent))
             low == SeqMin(Low(recent))
         IN  IF low = 0 THEN float_divide(high - low, low)
             ELSE Rat((high - low) * 100, low)

\* the true range of each bar: the largest of high - low,
\* |high - previous close| and |low - previous close|, the last two
\* undefined on the first bar and skipped by max(axis=1)
true_range(prices) ==
    [i \in 1..Len(prices) |->
        IF i = 1 THEN prices[i].High - prices[i].Low
        ELSE Max2(prices[i].High - prices[i].Low,
                  Max2(Abs(prices[i].High - prices[i - 1].Close),
                       Abs(prices[i].Low - prices[i - 1].Close)))]

\* calculate_atr for window > 0: the rolling mean of the true range,
\* undefined on the first window - 1 bars
calculate_atr(prices, window) ==
    IF Len(prices) = 0 THEN << >>
    ELSE LET tr == true_range(prices)
         IN  [i \in 1..Len(prices) |->
                 IF i < window THEN RatNaN
                 ELSE Rat(IntSum(SubSeq(tr, i - window + 1, i)), window)]

\* calculate_atr_percent: (atr / close) * 100, row by row
calculate_atr_percent(prices, window) ==
    LET atr == calculate_atr(prices, window)
        close == Close(prices)
    IN  [i \in 1..Len(atr) |->
            IF IsRatNaN(atr[i]) THEN RatNaN
            ELSE IF close[i] = 0 THEN float_divide(atr[i].num, 0)
            ELSE RatMul(atr[i], Rat(100, close[i]))]

----------------------------------------------------------------------------
(* Inputs of the range functions *)

\* the bars of a day: high, low and close, the last one of a worthless day
Bars ==
    {[High |-> 3, Low |-> 2, Close |-> 3],
     [High |-> 2, Low |-> 1, Close |-> 1],
     [High |-> 1, Low |-> 0, Close |-> 0]}

OhlcFrames ==
    UNION {{[i \in 1..n |-> [date |-> i, High |-> b[i].High, Low |-> b[i].Low,
                             Close |-> b[i].Close]] : b \in [1..n -> Bars]} :
           n \in 0..MaxBars}

AtrWindows == {1, 2, 3}

----------------------------------------------------------------------------
(* The divisions of the analyzers as a state machine *)

InitRanges ==
    /\ ALERT_THRESHOLDS = BaseThresholds
    /\ call = "none"
    /\ args = << >>
    /\ ret = << >>

CalculateWeeklyRange ==
    /\ call = "none"
    /\ \E prices \in OhlcFrames :
           /\ call' = "calculate_weekly_range"
           /\ args' = [prices |-> prices]
           /\ ret' = calculate_weekly_range(prices)
           /\ UNCHANGED ALERT_THRESHOLDS

CalculateAtrPercent ==
    /\ call = "none"
    /\ \E prices \in OhlcFrames, window \in AtrWindows :
           /\ call' = "calculate_atr_percent"
           /\ args' = [prices |-> prices, window |-> window]
           /\ ret' = calculate_atr_percent(prices, window)
           /\ UNCHANGED ALERT_THRESHOLDS

NextRanges == CalculateWeeklyRange \/ CalculateAtrPercent \/ CalculateBeta \/ Return

SpecRanges == InitRanges /\ [][NextRanges]_vars

----------------------------------------------------------------------------
(* The analyzers called with a window that is not positive *)

InvalidWindows == {0 - 2, 0 - 1, 0}

CalculateSpreadVelocityWindow ==
    /\ call = "none"
    /\ \E spread_df \in StatSeries, window \in InvalidWindows :
           /\ call' = "calculate_spread_velocity"
           /\ args' = [spread_df |-> spread_df, window |-> window]
           /\ ret' = calculate_spread_velocity(spread_df, window)
           /\ UNCHANGED ALERT_THRESHOLDS

\* the series that leave np.polyfit a single point are left out
GetSpreadTrendWindow ==
    /\ call = "none"
    /\ \E spread_df \in StatSeries, window \in InvalidWindows :
           /\ Len(tail(dropna(spread_df), window)) # 1
           /\ call' = "get_spread_trend"
           /\ args' = [spread_df |-> spread_df, window |-> window]
           /\ ret' = get_spread_trend(spread_df, window)
           /\ UNCHANGED ALERT_THRESHOLDS

CalculateBetaWindow ==
    /\ call = "none"
    /\ \E asset \in BetaFrames, benchmark \in BetaBenchmarks, window \in InvalidWindows :
           /\ call' = "calculate_beta"
           /\ args' = [asset |-> asset, benchmark |-> benchmark, window |-> window]
           /\ ret' = calculate_beta(asset, benchmark, window)
           /\ UNCHANGED ALERT_THRESHOLDS

NextWindows ==
    \/ CalculateSpreadVelocityWindow
    \/ GetSpreadTrendWindow
    \/ CalculateBetaWindow
    \/ Return

SpecWindows == InitSpreadStats /\ [][NextWindows]_vars

----------------------------------------------------------------------------
(* src/components/alerts.py: alert levels *)

\* most alerts in a list
MaxAlerts == 3

\* the values of the enum AlertLevel
AlertLevel == {"safe", "info", "warning", "danger", "critical"}

\* LEVEL_PRIORITY.get(level, 99)
LEVEL_PRIORITY(level) ==
    CASE level = "critical" -> 0
      [] level = "danger" -> 1
      [] level = "warning" -> 2
      [] level = "info" -> 3
      [] level = "safe" -> 4
      [] OTHER -> 99

\* LEVEL_COLORS.get(level, "#757575")
LEVEL_COLORS(level) ==
    CASE level = "safe" -> "#00C853"
      [] level = "info" -> "#2979FF"
      [] level = "warning" -> "#FFD600"
      [] level = "danger" -> "#FF5722"
      [] level = "critical" -> "#9C27B0"
      [] OTHER -> "#757575"

\* Python's None
None == "None"

\* create_alert: the Alert object
create_alert(level, category, message, color, value, threshold) ==
    LET alert_level == IF level \in AlertLevel THEN level ELSE "info"
    IN  [level |-> alert_level,
         category |-> category,
         message |-> message,
         color |-> IF color = None THEN LEVEL_COLORS(alert_level) ELSE color,
         value |-> value,
         threshold |-> threshold]

\* sorted(alerts, key=LEVEL_PRIORITY): stable, so the k-th alert of the
\* result is the one with k - 1 alerts before it: those of smaller priority
\* number, and those of equal priority number earlier in the list
sorted_by_level_priority(alerts) ==
    LET before(i) ==
            Cardinality({j \in 1..Len(alerts) :
                \/ LEVEL_PRIORITY(alerts[j].level) < LEVEL_PRIORITY(alerts[i].level)
                \/ /\ LEVEL_PRIORITY(alerts[j].level) = LEVEL_PRIORITY(alerts[i].level)
                   /\ j < i})
    IN  [k \in 1..Len(alerts) |->
            alerts[CHOOSE i \in 1..Len(alerts) : before(i) = k - 1]]

\* the last alert of the sorted list instead of the first
get_highest_priority_alert_Last(alerts) ==
    IF Len(alerts) = 0
    THEN create_alert("safe", "system", "all normal", None, 0, 0)
    ELSE sorted_by_level_priority(alerts)[Len(alerts)]

\* get_highest_priority_alert; "系统" is system, "一切正常" is all normal
get_highest_priority_alert(alerts) ==
    IF Len(alerts) = 0
    THEN create_alert("safe", "system", "all normal", None, 0, 0)
    ELSE sorted_by_level_priority(alerts)[1]

----------------------------------------------------------------------------
(* Inputs of the alert functions *)

\* level strings: the five known ones, one in another case, one unknown and
\* the empty string
LevelStrings == AlertLevel \cup {"CRITICAL", "severe", ""}

AlertCategories == {"spread", "volatility"}

AlertColors == {None, "#123456"}

\* the alerts a caller builds with create_alert
Alerts ==
    {create_alert(level, category, "message", None, 0, 0) :
        level \in AlertLevel, category \in AlertCategories}

\* the lists of at most MaxAlerts alerts
AlertLists == UNION {[1..n -> Alerts] : n \in 0..MaxAlerts}

----------------------------------------------------------------------------
(* The alert functions as a state machine *)

InitAlerts ==
    /\ ALERT_THRESHOLDS = BaseThresholds
    /\ call = "none"
    /\ args = << >>
    /\ ret = << >>

CreateAlert ==
    /\ call = "none"
    /\ \E level \in LevelStrings, category \in AlertCategories, color \in AlertColors :
           /\ call' = "create_alert"
           /\ args' = [level |-> level, category |-> category, color |-> color]
           /\ ret' = create_alert(level, category, "message", color, 0, 0)
           /\ UNCHANGED ALERT_THRESHOLDS

GetHighestPriorityAlert ==
    /\ call = "none"
    /\ \E alerts \in AlertLists :
           /\ call' = "get_highest_priority_alert"
           /\ args' = [alerts |-> alerts]
           /\ ret' = get_highest_priority_alert(alerts)
           /\ UNCHANGED ALERT_THRESHOLDS

NextAlerts == CreateAlert \/ GetHighestPriorityAlert \/ Return

SpecAlerts == InitAlerts /\ [][NextAlerts]_vars

----------------------------------------------------------------------------
(* src/app.py: one run of the dashboard script *)

\* the colour check_spread_alert returns with each level
spread_alert_color(level) ==
    CASE level = "critical" -> "#9C27B0"
      [] level = "danger" -> "#FF1744"
      [] level = "warning" -> "#FFD600"
      [] OTHER -> "#00C853"

\* the alerts of the run: one per analyzer whose alert is not safe.  The
\* categories translate "利差" (spread), "波动率" (volatility) and "背离"
\* (divergence); the spread message is "当前利差 {x:.2f}%" (current spread).
collect_run_alerts(spread_alert, current_spread, vol_alert, div_alert) ==
    (IF spread_alert # "safe"
     THEN <<create_alert(spread_alert, "spread", <<"current spread", current_spread>>,
                         spread_alert_color(spread_alert), None, None)>>
     ELSE << >>)
    \o (IF vol_alert.level # "safe"
        THEN <<create_alert(vol_alert.level, "volatility", vol_alert.message,
                            vol_alert.color, None, None)>>
        ELSE << >>)
    \o (IF div_alert.level # "safe"
        THEN <<create_alert(div_alert.level, "divergence", div_alert.message,
                            div_alert.color, None, None)>>
        ELSE << >>)

\* the script from the thresholds of the sidebar to the risk score, given
\* the series and statistics the data layer loaded
run_app(us_yield, jp_yield_input, spread_warning, spread_danger, jpy_daily_threshold, vol_stats, divergence_result) ==
    LET current_thresholds ==
            [ALERT_THRESHOLDS EXCEPT !.SPREAD_WARNING = spread_warning,
                                     !.SPREAD_DANGER = spread_danger,
                                     !.JPY_DAILY_MOVE = jpy_daily_threshold]
        spread_df == calculate_yield_spread(us_yield,
                                            [scalar |-> TRUE, value |-> jp_yield_input])
        spread_stats == IF Len(spread_df) # 0 THEN get_spread_statistics(spread_df)
                        ELSE EmptyDict
        current_spread == get(spread_stats, "current", 0)
        spread_alert == check_spread_alert(current_spread)
        vol_alert == check_volatility_alert(get(vol_stats, "daily_change", 0),
                                            get(vol_stats, "weekly_range", 0),
                                            get(vol_stats, "hv_percentile", 50))
        div_alert == get_divergence_alert(divergence_result)
        risk == calculate_composite_risk_score(spread_stats, vol_stats, divergence_result)
    IN  [current_thresholds |-> current_thresholds,
         spread_stats |-> spread_stats,
         current_spread |-> current_spread,
         spread_alert |-> spread_alert,
         vol_alert |-> vol_alert,
         div_alert |-> div_alert,
         alerts |-> collect_run_alerts(spread_alert, current_spread, vol_alert, div_alert),
         risk_score |-> risk.score,
         risk_factors |-> risk.factors]

----------------------------------------------------------------------------
(* Inputs of a run *)

\* the US yields loaded: none, one or two days, a day without a value
RunUsYields ==
    {<< >>, <<28>>, <<33>>, <<36>>, <<38>>, <<41>>, <<50>>, <<41, 36>>, <<38, NaN>>, <<NaN>>}

\* the sliders: the default and a value on either side
SpreadWarningInputs == {22, DEFAULT_SPREAD_WARNING, 30}
SpreadDangerInputs == {17, DEFAULT_SPREAD_DANGER, 22}
DailyMoveInputs == {10, BaseThresholds.JPY_DAILY_MOVE, 30}

RunVolStats ==
    {EmptyDict}
    \cup {[daily_change |-> d, weekly_range |-> 0, hv_percentile |-> 50] :
             d \in {0 - 25, 0, 15, 25}}

RunDivergence ==
    {[divergence_detected |-> FALSE, divergence_score |-> RatInt(0)],
     [divergence_detected |-> TRUE, divergence_score |-> RatInt(0 - 15)]}

\* the 10-year JGB yield typed in the sidebar
JpYieldInput == 15

----------------------------------------------------------------------------
(* The run of the script as a state machine *)

InitApp ==
    /\ ALERT_THRESHOLDS = BaseThresholds
    /\ call = "none"
    /\ args = << >>
    /\ ret = << >>

RunApp ==
    /\ call = "none"
    /\ \E us_yield \in RunUsYields, spread_warning \in SpreadWarningInputs,
          spread_danger \in SpreadDangerInputs, jpy_daily_threshold \in DailyMoveInputs,
          vol_stats \in RunVolStats, divergence_result \in RunDivergence :
           /\ call' = "app"
           /\ args' = [us_yield |-> us_yield, spread_warning |-> spread_warning,
                       spread_danger |-> spread_danger,
                       jpy_daily_threshold |-> jpy_daily_threshold,
                       vol_stats |-> vol_stats, divergence_result |-> divergence_result]
           /\ ret' = run_app(us_yield, JpYieldInput, spread_warning, spread_danger,
                             jpy_daily_threshold, vol_stats, divergence_result)
           /\ UNCHANGED ALERT_THRESHOLDS

NextApp == RunApp \/ Return

SpecApp == InitApp /\ [][NextApp]_vars

----------------------------------------------------------------------------
(* src/indicators/volatility.py: get_volatility_stats *)

\* config.CALC_PARAMS: one admissible setting of the windows the analyzers
\* default to, short enough for frames of a few bars
CALC_PARAMS ==
    [VOL_WINDOW |-> 2, ATR_WINDOW |-> 2, VOL_LOOKBACK |-> 4,
     RELATIVE_STRENGTH_WINDOW |-> 2]

\* a float that is a whole number, as that number
whole(p) == CHOOSE n \in {p.num} : p.den = 1

\* calculate_daily_change: close.pct_change() * 100, in tenths of a percent,
\* undefined on the first bar
calculate_daily_change(prices) ==
    LET close == Close(prices)
    IN  [i \in 1..Len(close) |->
            IF i = 1 THEN NaN
            ELSE whole(Rat((close[i] - close[i - 1]) * 1000, close[i - 1]))]

\* abs(daily_change.tail(5)).max(), which skips the undefined first bar
max_abs_change_5d(daily_change) ==
    LET recent == dropna(tail(daily_change, 5))
    IN  SeqMax([i \in 1..Len(recent) |-> Abs(recent[i])])

\* get_volatility_stats of a frame with at least two bars, or none: the
\* historical volatility is kept as its square (see
\* calculate_historical_volatility), the changes and the weekly range in
\* tenths of a percent, the percentile in percent; hv_mean and hv_std, the
\* mean and deviation of square roots, are not kept
get_volatility_stats(prices) ==
    IF Len(prices) = 0 THEN EmptyDict
    ELSE LET hv == calculate_historical_volatility(prices, CALC_PARAMS.VOL_WINDOW)
             atr == calculate_atr(prices, CALC_PARAMS.ATR_WINDOW)
             atr_pct == calculate_atr_percent(prices, CALC_PARAMS.ATR_WINDOW)
             daily_change == calculate_daily_change(prices)
         IN  [historical_volatility |-> hv[Len(hv)],
              atr |-> atr[Len(atr)],
              atr_percent |-> atr_pct[Len(atr_pct)],
              daily_change |-> daily_change[Len(daily_change)],
              hv_percentile |->
                  whole(get_volatility_percentile(hv, CALC_PARAMS.VOL_LOOKBACK)),
              max_daily_change_5d |->
                  IF Len(daily_change) >= 5 THEN max_abs_change_5d(daily_change) ELSE 0,
              weekly_range |-> whole(RatMul(calculate_weekly_range(prices), RatInt(10)))]

----------------------------------------------------------------------------
(* The three analyzers of a run, evaluated in any order *)

\* the analyzers and the aggregator
Analyzers == {"spread", "volatility", "divergence"}

\* the results of a run before any analyzer has completed
NoResults ==
    [done |-> {}, spread |-> EmptyDict, volatility |-> EmptyDict,
     divergence |-> EmptyDict, risk |-> EmptyDict]

\* the spread analyzer of the run: the statistics of the yield spread
spread_analyzer(inputs) ==
    LET spread_df == calculate_yield_spread(inputs.us_yield, inputs.jp_yield)
    IN  IF Len(spread_df) # 0 THEN get_spread_statistics(spread_df) ELSE EmptyDict

\* the volatility analyzer of the run
volatility_analyzer(inputs) ==
    IF Len(inputs.usdjpy) # 0 THEN get_volatility_stats(inputs.usdjpy) ELSE EmptyDict

\* the divergence analyzer of the run
divergence_analyzer(inputs) ==
    detect_divergence(inputs.high_beta_assets, inputs.benchmark,
                      CALC_PARAMS.RELATIVE_STRENGTH_WINDOW)

\* the frame of n bars that closes at 4, and at `last` on the last bar, each
\* bar from the lower to the higher of its close and the close before
UsdJpyFrame(n, last) ==
    [i \in 1..n |->
        LET c == IF i = n THEN last ELSE 4
        IN  [date |-> i, High |-> Max2(c, 4), Low |-> 0 - Max2(0 - c, 0 - 4), Close |-> c]]

\* frames whose percentile is a whole number: 0, 4 or 6 bars
UsdJpyFrames == {UsdJpyFrame(n, last) : n \in {0, 4, 6}, last \in {2, 4, 8}}

PipelineYields == {<< >>, <<33>>, <<41, NaN, 36>>}

PipelineAssets ==
    {<< >>}
    \cup {<<[ticker |-> "BTC-USD", df |-> Frame(Contiguous(n), 100, 100, p2)],
            [ticker |-> "EEM", df |-> Frame(Contiguous(MaxDates), 100, 100, q2)]>> :
             n \in {0, MaxDates}, p2 \in {80, 100}, q2 \in {70, 100}}

PipelineBenchmarks == {Frame(Contiguous(n), 100, 100, 100) : n \in {0, MaxDates}}

PipelineInputs ==
    [us_yield : PipelineYields,
     jp_yield : {[scalar |-> TRUE, value |-> JpYieldInput]},
     usdjpy : UsdJpyFrames,
     high_beta_assets : PipelineAssets,
     benchmark : PipelineBenchmarks]

StartRun ==
    /\ call = "none"
    /\ \E inputs \in PipelineInputs :
           /\ call' = "run"
           /\ args' = inputs
           /\ ret' = NoResults
           /\ UNCHANGED ALERT_THRESHOLDS

AnalyzeSpread ==
    /\ call = "run"
    /\ ret' = [ret EXCEPT !.spread = spread_analyzer(args),
                          !.done = @ \cup {"spread"}]
    /\ UNCHANGED <<ALERT_THRESHOLDS, call, args>>

AnalyzeVolatility ==
    /\ call = "run"
    /\ ret' = [ret EXCEPT !.volatility = volatility_analyzer(args),
                          !.done = @ \cup {"volatility"}]
    /\ UNCHANGED <<ALERT_THRESHOLDS, call, args>>

\* the analyzer with a details list that outlives the call
AnalyzeDivergence_KeepsDetails ==
    /\ call = "run"
    /\ LET result == divergence_analyzer(args)
           kept == IF "divergence" \in ret.done THEN ret.divergence.details ELSE << >>
       IN  ret' = [ret EXCEPT !.divergence = [result EXCEPT !.details = kept \o @],
                              !.done = @ \cup {"divergence"}]
    /\ UNCHANGED <<ALERT_THRESHOLDS, call, args>>

AnalyzeDivergence ==
    /\ call = "run"
    /\ ret' = [ret EXCEPT !.divergence = divergence_analyzer(args),
                          !.done = @ \cup {"divergence"}]
    /\ UNCHANGED <<ALERT_THRESHOLDS, call, args>>

\* the aggregator, after the three analyzers
Aggregate ==
    /\ call = "run"
    /\ Analyzers \subseteq ret.done
    /\ ret' = [ret EXCEPT !.risk = calculate_composite_risk_score(
                                       ret.spread, ret.volatility, ret.divergence),
                          !.done = @ \cup {"risk"}]
    /\ UNCHANGED <<ALERT_THRESHOLDS, call, args>>

NextPipeline ==
    \/ StartRun
    \/ AnalyzeSpread
    \/ AnalyzeVolatility
    \/ AnalyzeDivergence
    \/ Aggregate
    \/ Return

SpecPipeline == InitApp /\ [][NextPipeline]_vars

----------------------------------------------------------------------------
(* The divergence result given to its alert and to the composite score *)

\* detect_divergence, then get_divergence_alert and
\* calculate_composite_risk_score on its result, as the script does; without
\* spread and volatility statistics the score is the divergence part
classify_divergence(high_beta_assets, benchmark, window) ==
    LET divergence_result == detect_divergence(high_beta_assets, benchmark, window)
    IN  [divergence_result |-> divergence_result,
         div_alert |-> get_divergence_alert(divergence_result),
         risk |-> calculate_composite_risk_score(EmptyDict, EmptyDict, divergence_result)]

ClassifyDivergence ==
    /\ call = "none"
    /\ \E high_beta_assets \in HighBetaAssets, benchmark \in BenchmarkFrames,
          window \in 1..MaxWindow :
           /\ call' = "classify_divergence"
           /\ args' = [high_beta_assets |-> high_beta_assets, benchmark |-> benchmark,
                       window |-> window]
           /\ ret' = classify_divergence(high_beta_assets, benchmark, window)
           /\ UNCHANGED ALERT_THRESHOLDS

NextClassify == ClassifyDivergence \/ Return

SpecClassify == InitDivergence /\ [][NextClassify]_vars

----------------------------------------------------------------------------
(* Claims about the spread analyzer *)

\* the order safe < warning < danger < critical of the levels of
\* check_spread_alert
Severity(level) ==
    CASE level = "safe" -> 0
      [] level = "warning" -> 1
      [] level = "danger" -> 2
      [] level = "critical" -> 3

Ascending ==
    /\ ALERT_THRESHOLDS.SPREAD_CRITICAL <= ALERT_THRESHOLDS.SPREAD_DANGER
    /\ ALERT_THRESHOLDS.SPREAD_DANGER <= ALERT_THRESHOLDS.SPREAD_WARNING

\* C1: check_spread_alert is monotone.  Under every configuration of the three
\* thresholds, ordered or not, the level returned for a spread s1 is at least
\* as severe as the level of every larger spread s2.
C1_Monotone ==
    call = "check_spread_alert" /\ ~IsNaN(args.current_spread) =>
        \A s2 \in SpreadValues \ {NaN} :
            args.current_spread < s2 =>
                Severity(ret) >= Severity(check_spread_alert(s2))

\* C1 witness: under thresholds that are not ascending, a call returned
\* critical while a larger spread is safe and another larger one is not.
C1_Witness ==
    /\ call = "check_spread_alert"
    /\ ~Ascending
    /\ ret = "critical"
    /\ \E s2 \in SpreadValues \ {NaN} :
          args.current_spread < s2 /\ check_spread_alert(s2) = "safe"
    /\ \E s2 \in SpreadValues \ {NaN} :
          args.current_spread < s2 /\ check_spread_alert(s2) = "danger"

\* C2: with CRITICAL <= DANGER <= WARNING the level is critical iff
\* s <= CRITICAL, danger iff CRITICAL < s <= DANGER, warning iff
\* DANGER < s <= WARNING, safe iff s > WARNING; and with the defaults
\* (critical 1.5, warning 2.5) the spread of US 4.5 and counterpart 1.5 is 3.0
\* on every date and safe, that of US 4.5 and counterpart 3.2 is 1.3 and
\* critical, and a spread of exactly 1.5 is critical.
C2_Bands ==
    /\ call = "check_spread_alert" /\ ~IsNaN(args.current_spread) /\ Ascending =>
        LET s == args.current_spread
            T == ALERT_THRESHOLDS
        IN  /\ ret = "critical" <=> s <= T.SPREAD_CRITICAL
            /\ ret = "danger" <=> T.SPREAD_CRITICAL < s /\ s <= T.SPREAD_DANGER
            /\ ret = "warning" <=> T.SPREAD_DANGER < s /\ s <= T.SPREAD_WARNING
            /\ ret = "safe" <=> s > T.SPREAD_WARNING
    /\ /\ Ascending
       /\ ALERT_THRESHOLDS.SPREAD_CRITICAL = DEFAULT_SPREAD_CRITICAL
       /\ ALERT_THRESHOLDS.SPREAD_WARNING = DEFAULT_SPREAD_WARNING
       =>
        /\ check_spread_alert(15) = "critical"
        /\ call = "calculate_yield_spread" /\ Len(args.us_yield) > 0
              /\ (\A i \in 1..Len(args.us_yield) : args.us_yield[i] = 45)
              /\ args.jp_yield.scalar =>
                /\ Len(ret) = Len(args.us_yield)
                /\ args.jp_yield.value = 15 =>
                      \A i \in 1..Len(ret) :
                          ret[i] = 30 /\ check_spread_alert(ret[i]) = "safe"
                /\ args.jp_yield.value = 32 =>
                      \A i \in 1..Len(ret) :
                          ret[i] = 13 /\ check_spread_alert(ret[i]) = "critical"

\* C2 witness: under the default thresholds the spread of US 4.5 and a scalar
\* counterpart 3.2 was computed over two dates.
C2_Witness ==
    /\ ALERT_THRESHOLDS.SPREAD_CRITICAL = DEFAULT_SPREAD_CRITICAL
    /\ ALERT_THRESHOLDS.SPREAD_DANGER = DEFAULT_SPREAD_DANGER
    /\ ALERT_THRESHOLDS.SPREAD_WARNING = DEFAULT_SPREAD_WARNING
    /\ call = "calculate_yield_spread"
    /\ args.us_yield = <<45, 45>>
    /\ args.jp_yield.scalar /\ args.jp_yield.value = 32
    /\ ret = <<13, 13>>

\* C3 as stated: is_spread_accelerating returns false for every series whose
\* 20-day velocity is non-negative.
C3_FalseWhenLongNonNegative ==
    call = "is_spread_accelerating"
        /\ RatLeq(RatInt(0), calculate_spread_velocity(args.spread_df, 20))
        => ret = FALSE

\* C3 amended: for a series whose 20-day velocity is non-negative,
\* is_spread_accelerating returns true exactly when the 5-day velocity is
\* negative, and false exactly when the 5-day velocity is non-negative.
C3_LongNonNegative ==
    call = "is_spread_accelerating"
        /\ RatLeq(RatInt(0), calculate_spread_velocity(args.spread_df, 20))
        => (ret = TRUE <=>
               RatLess(calculate_spread_velocity(args.spread_df, 5), RatInt(0)))

\* C3 witness: a series of at least 20 defined observations with a positive
\* 20-day velocity and a negative 5-day velocity, for which the call
\* returned true.
C3_Witness ==
    /\ call = "is_spread_accelerating"
    /\ Len(dropna(args.spread_df)) >= 20
    /\ RatLess(RatInt(0), calculate_spread_velocity(args.spread_df, 20))
    /\ RatLess(calculate_spread_velocity(args.spread_df, 5), RatInt(0))
    /\ ret = TRUE

----------------------------------------------------------------------------
(* Claims about the risk aggregator *)

\* the category a factor string belongs to: 1 spread, 2 volatility,
\* 3 divergence
FactorCategory(f) ==
    CASE f \in {"spread extremely narrow", "spread dangerously narrow",
                "spread at the warning line", "spread at a low level"} -> 1
      [] f \in {"volatility extreme", "volatility high", "volatility rising"} -> 2
      [] f \in {"severe divergence", "clear divergence", "slight divergence"} -> 3

\* the additive band model as the specification states it
BandSpread(x) ==
    IF IsNaN(x) THEN 0
    ELSE IF x <= 15 THEN 40 ELSE IF x <= 20 THEN 30
    ELSE IF x <= 25 THEN 20 ELSE IF x <= 30 THEN 10 ELSE 0
BandVolatility(x) ==
    IF x >= 95 THEN 30 ELSE IF x >= 80 THEN 20 ELSE IF x >= 60 THEN 10 ELSE 0
BandDivergence(detected, x) ==
    IF ~detected THEN 0
    ELSE IF RatLess(RatInt(20), RatAbs(x)) THEN 30
    ELSE IF RatLess(RatInt(10), RatAbs(x)) THEN 20 ELSE 10

NonZero(n) == IF n # 0 THEN 1 ELSE 0

\* C4: calculate_composite_risk_score is the sum of the three bands, each
\* non-zero band appends exactly one factor string, and spread 1.0,
\* hv_percentile 97, divergence detected with score -25 give exactly 100 and
\* three factors in the order spread, volatility, divergence.
C4_Bands ==
    call = "calculate_composite_risk_score"
        /\ "current" \in DOMAIN args.spread_stats
        /\ "hv_percentile" \in DOMAIN args.vol_stats
        /\ DOMAIN args.divergence_result = {"divergence_detected", "divergence_score"}
        =>
        LET sp == BandSpread(args.spread_stats.current)
            vo == BandVolatility(args.vol_stats.hv_percentile)
            di == BandDivergence(args.divergence_result.divergence_detected,
                                 args.divergence_result.divergence_score)
        IN  /\ ret.score = sp + vo + di
            /\ Len(ret.factors) = NonZero(sp) + NonZero(vo) + NonZero(di)
            /\ args.spread_stats.current = 10 /\ args.vol_stats.hv_percentile = 97
                  /\ args.divergence_result.divergence_detected
                  /\ args.divergence_result.divergence_score = RatInt(0 - 25)
                  => /\ ret.score = 100
                     /\ Len(ret.factors) = 3
                     /\ FactorCategory(ret.factors[1]) = 1
                     /\ FactorCategory(ret.factors[2]) = 2
                     /\ FactorCategory(ret.factors[3]) = 3

\* C4 witness: the call with spread 1.0, hv_percentile 97 and a detected
\* divergence of score -25 returned 100.
C4_Witness ==
    /\ call = "calculate_composite_risk_score"
    /\ args.spread_stats = [current |-> 10]
    /\ args.vol_stats = [hv_percentile |-> 97]
    /\ args.divergence_result =
          [divergence_detected |-> TRUE, divergence_score |-> RatInt(0 - 25)]
    /\ ret.score = 100
    /\ ret.factors = <<"spread extremely narrow", "volatility extreme",
                       "severe divergence">>

\* C5: for every input, dictionaries with missing keys included, the score
\* is in [0,100] and a multiple of 10, there are as many factors as
\* categories that contributed a non-zero amount (at most 3), the factors
\* are in category order, and three empty inputs give (0, []).
C5_ScoreRange ==
    call = "calculate_composite_risk_score" =>
        LET sp == spread_risk(args.spread_stats).score
            vo == volatility_risk(args.vol_stats).score
            di == divergence_risk(args.divergence_result).score
        IN  /\ ret.score \in 0..100
            /\ ret.score % 10 = 0
            /\ Len(ret.factors) = NonZero(sp) + NonZero(vo) + NonZero(di)
            /\ Len(ret.factors) <= 3
            /\ \A i \in 1..Len(ret.factors), j \in 1..Len(ret.factors) :
                  i < j => FactorCategory(ret.factors[i]) < FactorCategory(ret.factors[j])
            /\ args.spread_stats = EmptyDict /\ args.vol_stats = EmptyDict
                  /\ args.divergence_result = EmptyDict
                  => ret = [score |-> 0, factors |-> << >>]

\* C5 witness: a call with a dictionary that lacks a key returned two factors
\* for two contributing categories.
C5_Witness ==
    /\ call = "calculate_composite_risk_score"
    /\ args.spread_stats = EmptyDict
    /\ args.divergence_result = [divergence_detected |-> TRUE]
    /\ ret.score = 40
    /\ Len(ret.factors) = 2

----------------------------------------------------------------------------
(* Claims about the divergence analyzer *)

\* DIVERGENCE_THRESHOLD * 100
ThresholdPercent == RatMul(ALERT_THRESHOLDS.DIVERGENCE_THRESHOLD, RatInt(100))

\* asset i of the call shares no date with the benchmark
NoOverlap(i) ==
    Index(args.high_beta_assets[i].df) \cap Index(args.benchmark) = {}

\* the current relative strength of asset i of the call: the last value of
\* its relative-strength series, 0 when that value is undefined
CurrentStrength(i) ==
    current_relative_strength(
        calculate_relative_strength(args.high_beta_assets[i].df, args.benchmark,
                                    args.window))

DetailTickers == {ret.details[k].ticker : k \in 1..Len(ret.details)}

\* C6: with a non-empty benchmark, detect_divergence flags an asset iff
\* benchmark_return >= -2 and the asset's current relative strength is below
\* DIVERGENCE_THRESHOLD*100; divergence_score is the mean of the relative
\* strengths of exactly the flagged assets; divergence_detected iff at least
\* one asset is flagged; empty assets and assets without date overlap are
\* skipped.
C6_Flagging ==
    call = "detect_divergence" /\ Len(args.benchmark) > 0 =>
        LET A == args.high_beta_assets
            skipped(i) == Len(A[i].df) = 0 \/ NoOverlap(i)
        IN  /\ \A i \in 1..Len(A) :
                  /\ skipped(i) =>
                        /\ A[i].ticker \notin DetailTickers
                        /\ A[i].ticker \notin DOMAIN ret.high_beta_performance
                  /\ ~skipped(i) =>
                        /\ A[i].ticker \in DOMAIN ret.high_beta_performance
                        /\ A[i].ticker \in DetailTickers
                              <=> /\ RatLeq(RatInt(0 - 2), ret.benchmark_performance)
                                  /\ RatLess(CurrentStrength(i), ThresholdPercent)
            /\ \A k \in 1..Len(ret.details) :
                  \E i \in 1..Len(A) :
                      /\ A[i].ticker = ret.details[k].ticker
                      /\ ret.details[k].relative_strength = CurrentStrength(i)
            /\ \A k \in 1..Len(ret.details), l \in 1..Len(ret.details) :
                  k # l => ret.details[k].ticker # ret.details[l].ticker
            /\ ret.divergence_detected <=> Len(ret.details) >= 1
            /\ Len(ret.details) >= 1 =>
                  RatMul(ret.divergence_score, RatInt(Len(ret.details)))
                      = RatSum([k \in 1..Len(ret.details) |->
                                   ret.details[k].relative_strength])

\* C6 witness: of two assets, one without date overlap was skipped and the
\* other was flagged under a benchmark that fell by exactly 2 percent.
C6_Witness ==
    /\ call = "detect_divergence"
    /\ Len(args.high_beta_assets) = 2
    /\ Len(args.high_beta_assets[1].df) > 0 /\ NoOverlap(1)
    /\ ret.benchmark_performance = RatInt(0 - 2)
    /\ DetailTickers = {"EEM"}
    /\ ret.divergence_detected

\* C7: with a negative threshold, divergence_detected iff details is not
\* empty; when detected the score is below DIVERGENCE_THRESHOLD*100 (so
\* <= 0) and so is the relative strength of every detail; when not detected
\* the score is 0 and details is empty.
C7_ResultInvariant ==
    call = "detect_divergence" /\ RatLess(ALERT_THRESHOLDS.DIVERGENCE_THRESHOLD, RatInt(0)) =>
        /\ ret.divergence_detected <=> Len(ret.details) > 0
        /\ ret.divergence_detected =>
              /\ RatLeq(ret.divergence_score, RatInt(0))
              /\ RatLess(ret.divergence_score, ThresholdPercent)
              /\ \A k \in 1..Len(ret.details) :
                    RatLess(ret.details[k].relative_strength, ThresholdPercent)
        /\ ~ret.divergence_detected =>
              /\ ret.divergence_score = RatInt(0)
              /\ ret.details = << >>

\* C7 witness: two assets were flagged with different relative strengths.
C7_Witness ==
    /\ call = "detect_divergence"
    /\ ret.divergence_detected
    /\ Len(ret.details) = 2
    /\ ret.details[1].relative_strength # ret.details[2].relative_strength
    /\ ret.divergence_score # ret.details[1].relative_strength

\* C8 as stated: for identical benchmark and asset series the relative
\* strength is 0 at every aligned date and detect_divergence does not
\* detect.
C8_IdenticalZeroEverywhere ==
    /\ call = "calculate_relative_strength" /\ args.asset = args.benchmark =>
          \A i \in 1..Len(ret) : ret[i] = RatInt(0)
    /\ call = "detect_divergence" /\ Len(args.high_beta_assets) = 1
          /\ args.high_beta_assets[1].df = args.benchmark =>
          ~ret.divergence_detected

\* C8 amended: for identical benchmark and asset series the relative
\* strength has one value per date, undefined at the first `window` dates
\* and 0 at every later date, and detect_divergence does not detect (score
\* 0, no details), for every window and length.
C8_IdenticalZeroWhereDefined ==
    /\ call = "calculate_relative_strength" /\ args.asset = args.benchmark =>
          /\ Len(ret) = Len(args.benchmark)
          /\ \A i \in 1..Len(ret) :
                IF i <= args.window THEN IsRatNaN(ret[i]) ELSE ret[i] = RatInt(0)
    /\ call = "detect_divergence" /\ Len(args.high_beta_assets) = 1
          /\ args.high_beta_assets[1].df = args.benchmark =>
          /\ ~ret.divergence_detected
          /\ ret.divergence_score = RatInt(0)
          /\ ret.details = << >>

\* C8 witness: the relative strength of a series that moves, against
\* itself, was computed with values on both sides of the window.
C8_Witness ==
    /\ call = "calculate_relative_strength"
    /\ args.asset = args.benchmark
    /\ args.window = 2
    /\ Len(args.benchmark) >= 4
    /\ args.benchmark[Len(args.benchmark)].Close # args.benchmark[Len(args.benchmark) - 2].Close
    /\ args.benchmark[Len(args.benchmark) - 1].Close # args.benchmark[Len(args.benchmark) - 3].Close
    /\ IsRatNaN(ret[2])
    /\ ret[Len(ret)] = RatInt(0)

----------------------------------------------------------------------------
(* Claims about the liquidity-retreat analysis *)

\* the metrics of the call's assets, in dict order
RetreatMetrics == asset_metrics_of(args.assets, args.benchmark)

\* the assets of metrics with beta > 1.2 and 5-day relative strength < -5
Underperformers(metrics) ==
    {i \in 1..Len(metrics) :
        /\ RatLess(Rat(12, 10), metrics[i].beta)
        /\ RatLess(metrics[i].relative_strength_5d, RatInt(0 - 5))}

\* the assets of metrics with beta < 1.0 and 5-day relative strength > -2
StableOnes(metrics) ==
    {i \in 1..Len(metrics) :
        /\ RatLess(metrics[i].beta, RatInt(1))
        /\ RatLess(RatInt(0 - 2), metrics[i].relative_strength_5d)}

BetaOf(metrics, ticker) ==
    metrics[CHOOSE i \in 1..Len(metrics) : metrics[i].ticker = ticker].beta

\* C9: analyze_liquidity_retreat lists in retreat_order exactly the assets
\* with beta > 1.2 and 5-day relative strength < -5, in beta-descending
\* order; retreat_detected is true iff there are at least 2 of them and at
\* least 1 asset with beta < 1.0 and relative strength > -2; severity is
\* high iff detected with at least 3 underperformers, medium when detected
\* otherwise; and for A (beta 1.5, rs -8), B (0.7, 0), C (1.8, -10) the
\* result is detected, medium, retreat_order [C, A].
C9_RetreatPattern ==
    call = "analyze_liquidity_retreat" =>
        LET metrics == RetreatMetrics
            order == ret.retreat_order
            under == Cardinality(Underperformers(metrics))
            stable == Cardinality(StableOnes(metrics))
        IN  /\ Len(order) = under
            /\ {order[k] : k \in 1..Len(order)} =
                   {metrics[i].ticker : i \in Underperformers(metrics)}
            /\ \A j, k \in 1..Len(order) :
                   j < k => RatLeq(BetaOf(metrics, order[k]), BetaOf(metrics, order[j]))
            /\ ret.retreat_detected <=> (under >= 2 /\ stable >= 1)
            /\ ret.severity = "high" <=> (ret.retreat_detected /\ under >= 3)
            /\ ret.severity = "medium" <=> (ret.retreat_detected /\ under < 3)
            /\ metrics =
                   <<[ticker |-> "A", beta |-> Rat(3, 2),
                      relative_strength_5d |-> RatInt(0 - 8)],
                     [ticker |-> "B", beta |-> Rat(7, 10),
                      relative_strength_5d |-> RatInt(0)],
                     [ticker |-> "C", beta |-> Rat(9, 5),
                      relative_strength_5d |-> RatInt(0 - 10)]>>
               => ret = [retreat_detected |-> TRUE, severity |-> "medium",
                         retreat_order |-> <<"C", "A">>]

\* C9 witness: the scenario's assets A (1.5, -8), B (0.7, 0), C (1.8, -10)
\* were analyzed and C was listed before A.
C9_Witness ==
    /\ call = "analyze_liquidity_retreat"
    /\ Len(RetreatMetrics) = 3
    /\ RetreatMetrics[1].beta = Rat(3, 2)
    /\ RetreatMetrics[1].relative_strength_5d = RatInt(0 - 8)
    /\ RetreatMetrics[2].beta = Rat(7, 10)
    /\ RetreatMetrics[2].relative_strength_5d = RatInt(0)
    /\ RetreatMetrics[3].beta = Rat(9, 5)
    /\ RetreatMetrics[3].relative_strength_5d = RatInt(0 - 10)
    /\ ret.retreat_order = <<"C", "A">>

----------------------------------------------------------------------------
(* Claims about the volatility alert *)

DailyFires == Abs(args.daily_change) >= ALERT_THRESHOLDS.JPY_DAILY_MOVE
WeeklyFires == Abs(args.weekly_change) >= ALERT_THRESHOLDS.JPY_WEEKLY_MOVE
ExtremeFires == args.hv_percentile >= ALERT_THRESHOLDS.VOL_PERCENTILE_EXTREME
HighFires == ~ExtremeFires /\ args.hv_percentile >= ALERT_THRESHOLDS.VOL_PERCENTILE_HIGH

\* C10: check_volatility_alert returns critical iff the extreme-percentile
\* condition fires; danger iff it does not and the daily or the weekly
\* condition fires; warning iff only the high-percentile condition fires;
\* safe iff none fires; the alert returned is the one of the condition that
\* decided, and when both the daily and the weekly condition decide, the
\* daily one.
C10_MostSevere ==
    call = "check_volatility_alert" =>
        /\ ret.level = "critical" <=> ExtremeFires
        /\ ret.level = "danger" <=> (~ExtremeFires /\ (DailyFires \/ WeeklyFires))
        /\ ret.level = "warning" <=> (HighFires /\ ~DailyFires /\ ~WeeklyFires)
        /\ ret.level = "safe" <=>
              (~ExtremeFires /\ ~HighFires /\ ~DailyFires /\ ~WeeklyFires)
        /\ ret.level = "critical" =>
              ret = alert_tuple("critical", "#9C27B0", "volatility extreme",
                                args.hv_percentile)
        /\ ret.level = "danger" /\ DailyFires =>
              ret = alert_tuple("danger", "#FF5722", "JPY daily move",
                                args.daily_change)
        /\ ret.level = "danger" /\ ~DailyFires =>
              ret = alert_tuple("danger", "#FF1744", "JPY weekly move",
                                args.weekly_change)
        /\ ret.level = "warning" =>
              ret = alert_tuple("warning", "#FFD600", "volatility elevated",
                                args.hv_percentile)

\* C10 witness: the daily, the weekly and the high-percentile condition
\* fired together and the daily alert was returned.
C10_Witness ==
    /\ call = "check_volatility_alert"
    /\ DailyFires /\ WeeklyFires /\ HighFires
    /\ ret.color = "#FF5722"

----------------------------------------------------------------------------
(* Claims about the alert levels *)

\* the total order SAFE < INFO < WARNING < DANGER < CRITICAL
LevelOrder == <<"safe", "info", "warning", "danger", "critical">>

LevelRank(level) == CHOOSE i \in 1..Len(LevelOrder) : LevelOrder[i] = level

\* C11: for a non-empty list get_highest_priority_alert returns an element
\* of the list at least as severe as every element under
\* SAFE < INFO < WARNING < DANGER < CRITICAL, the first of the list among
\* those of that level; for an empty list it returns a SAFE alert; and
\* create_alert turns a level string outside the five known values into
\* INFO.
C11_HighestPriority ==
    /\ call = "get_highest_priority_alert" /\ Len(args.alerts) > 0 =>
          \E i \in 1..Len(args.alerts) :
              /\ ret = args.alerts[i]
              /\ \A j \in 1..Len(args.alerts) :
                    LevelRank(args.alerts[j].level) <= LevelRank(ret.level)
              /\ \A j \in 1..(i - 1) : args.alerts[j].level # ret.level
    /\ call = "get_highest_priority_alert" /\ Len(args.alerts) = 0 =>
          ret.level = "safe"
    /\ call = "create_alert" /\ args.level \notin AlertLevel =>
          ret.level = "info"

\* C11 witness: of a warning followed by two danger alerts of different
\* categories the first danger alert was returned.
C11_Witness ==
    /\ call = "get_highest_priority_alert"
    /\ Len(args.alerts) = 3
    /\ args.alerts[1].level = "warning"
    /\ args.alerts[2].level = "danger"
    /\ args.alerts[3].level = "danger"
    /\ args.alerts[2] # args.alerts[3]
    /\ ret = args.alerts[2]

----------------------------------------------------------------------------
(* Claims about the spread statistics, trend and velocity *)

\* the positions of the defined spreads of the call's frame
Defined == {i \in 1..Len(args.spread_df) : ~IsNaN(args.spread_df[i])}

\* the position of the latest defined spread
Latest == CHOOSE i \in Defined : \A j \in Defined : j <= i

\* the defined spreads strictly decrease
StrictlyDecreasing ==
    \A i, j \in Defined : i < j => args.spread_df[i] > args.spread_df[j]

\* C12: the percentile get_spread_statistics returns is in [0, 100], is 100
\* times the fraction of the defined observations strictly less than the
\* current (latest defined) one, and is 0 for every strictly decreasing
\* series.
C12_Percentile ==
    call = "get_spread_statistics" /\ ret # EmptyDict =>
        /\ RatLeq(RatInt(0), ret.percentile)
        /\ RatLeq(ret.percentile, RatInt(100))
        /\ ret.percentile =
              Rat(100 * Cardinality({i \in Defined :
                            args.spread_df[i] < args.spread_df[Latest]}),
                  Cardinality(Defined))
        /\ StrictlyDecreasing => ret.percentile = RatInt(0)

\* C12 witness: statistics of a strictly decreasing series of at least
\* three defined observations, and with one missing, were computed.
C12_Witness ==
    /\ call = "get_spread_statistics"
    /\ ret # EmptyDict
    /\ Cardinality(Defined) >= 3
    /\ Cardinality(Defined) < Len(args.spread_df)
    /\ StrictlyDecreasing
    /\ ret.percentile = RatInt(0)

\* the defined spreads of the call's frame, in order
DefinedSpreads == dropna(args.spread_df)

\* the last defined spread less the k-th from last
LastLess(k) ==
    DefinedSpreads[Len(DefinedSpreads)] - DefinedSpreads[Len(DefinedSpreads) - k + 1]

\* C13: in get_spread_statistics, for N in {1, 5, 20}, change_Nd is 0 when
\* fewer than N + 1 defined observations exist, and with at least N + 1 it is
\* the last observation less an earlier one of the series: the one before
\* it for change_1d, the 5th from last for change_5d, the 20th from last for
\* change_20d.
C13_Changes ==
    call = "get_spread_statistics" /\ ret # EmptyDict =>
        /\ ret.change_1d = IF Len(DefinedSpreads) < 2 THEN 0 ELSE LastLess(2)
        /\ ret.change_5d = IF Len(DefinedSpreads) < 6 THEN 0 ELSE LastLess(5)
        /\ ret.change_20d = IF Len(DefinedSpreads) < 21 THEN 0 ELSE LastLess(20)

\* C13 witness: statistics of 21 defined observations were computed and
\* the three changes are not 0 and differ.
C13_Witness ==
    /\ call = "get_spread_statistics"
    /\ ret # EmptyDict
    /\ Len(DefinedSpreads) = 21
    /\ ret.change_1d # 0
    /\ ret.change_5d # ret.change_1d
    /\ ret.change_20d # ret.change_5d
    /\ ret.change_20d # 0

\* the trailing args.window defined spreads of the call's frame
Recent ==
    SubSeq(DefinedSpreads, Len(DefinedSpreads) - args.window + 1, Len(DefinedSpreads))

\* the ordinary-least-squares slope of Recent against 0..window-1:
\* sum((x - mean x) y) / sum((x - mean x) x), numerator and denominator
\* doubled
OlsSlope ==
    LET w == args.window
    IN  Rat(IntSum([i \in 1..w |-> (2 * (i - 1) - (w - 1)) * Recent[i]]),
            IntSum([i \in 1..w |-> (2 * (i - 1) - (w - 1)) * (i - 1)]))

\* 0.01 percent a day, in tenths of a percent
OneHundredth == Rat(1, 10)

\* C14: get_spread_trend returns unknown for an empty input,
\* insufficient_data when fewer than `window` defined observations exist,
\* and otherwise narrowing iff the least-squares slope of the last `window`
\* values against 0..window-1 is < -0.01, widening iff it is > 0.01,
\* oscillating iff it is between -0.01 and 0.01 inclusive.
C14_Trend ==
    call = "get_spread_trend" =>
        IF Len(args.spread_df) = 0 THEN ret = "unknown"
        ELSE IF Len(DefinedSpreads) < args.window THEN ret = "insufficient_data"
        ELSE /\ ret = "narrowing" <=> RatLess(OlsSlope, RatSub(RatInt(0), OneHundredth))
             /\ ret = "widening" <=> RatLess(OneHundredth, OlsSlope)
             /\ ret = "oscillating" <=>
                   /\ RatLeq(RatSub(RatInt(0), OneHundredth), OlsSlope)
                   /\ RatLeq(OlsSlope, OneHundredth)

\* C14 witness: the trend of 20 observations whose slope is exactly 0.01 was
\* classified oscillating.
C14_Witness ==
    /\ call = "get_spread_trend"
    /\ args.window = 20
    /\ Len(DefinedSpreads) >= 20
    /\ OlsSlope = OneHundredth
    /\ ret = "oscillating"

\* C15: calculate_spread_velocity(series, window) returns
\* (last - first) / window over the trailing `window` defined observations,
\* and 0 when the input is empty or fewer than `window` defined observations
\* exist.
C15_Velocity ==
    call = "calculate_spread_velocity" =>
        IF Len(args.spread_df) = 0 \/ Len(DefinedSpreads) < args.window
        THEN ret = RatInt(0)
        ELSE ret = RatDiv(RatInt(Recent[args.window] - Recent[1]), RatInt(args.window))

\* C15 witness: the 5-observation velocity of a longer series with a
\* missing value was computed, is not 0 and is not the move since the first
\* observation over the window.
C15_Witness ==
    /\ call = "calculate_spread_velocity"
    /\ args.window = 5
    /\ Len(DefinedSpreads) > 5
    /\ Len(DefinedSpreads) < Len(args.spread_df)
    /\ ret # RatInt(0)
    /\ DefinedSpreads[1] # Recent[1]

\* the counterpart yield of the call on date i
Counterpart(i) ==
    IF args.jp_yield.scalar THEN args.jp_yield.value ELSE args.jp_yield.series[i]

----------------------------------------------------------------------------
(* Claims about the volatility series *)

\* C17: for every price series of at least 21 observations with positive
\* closes, calculate_historical_volatility with window 20 has one value per
\* date, undefined at each of the first 20 positions, defined at every later
\* position and non-negative where defined; so the first defined value
\* needs window + 1 prices.
C17_HistoricalVolatility ==
    call = "calculate_historical_volatility" /\ args.window = 20
        /\ Len(args.prices) >= 21 =>
        /\ Len(ret) = Len(args.prices)
        /\ \A i \in 1..Len(ret) :
              IF i <= args.window THEN IsRatNaN(ret[i])
              ELSE ~IsRatNaN(ret[i]) /\ RatLeq(RatInt(0), ret[i])

\* C17 witness: the 20-day volatility of 22 prices that move was computed;
\* it is undefined on date 20 and positive on dates 21 and 22, with
\* different values.
C17_Witness ==
    /\ call = "calculate_historical_volatility"
    /\ args.window = 20
    /\ Len(args.prices) = 22
    /\ IsRatNaN(ret[20])
    /\ RatLess(RatInt(0), ret[21])
    /\ RatLess(RatInt(0), ret[22])
    /\ ret[21] # ret[22]

\* the defined observations among the trailing min(lookback, length) entries
DefinedTail ==
    LET volatility == args.volatility
        n == IF args.lookback < Len(volatility) THEN args.lookback ELSE Len(volatility)
        first == Len(volatility) - n + 1
    IN  SelectSeq([i \in 1..n |-> volatility[first + i - 1]],
                  LAMBDA v : v # RatNaN)

\* C18: get_volatility_percentile returns a value in [0, 100]: 50 when the
\* series is empty or no observation among its trailing min(lookback,
\* length) entries is defined, and otherwise 100 times the fraction of the
\* defined observations among those entries that are strictly less than the
\* latest defined one.
C18_VolatilityPercentile ==
    call = "get_volatility_percentile" =>
        LET d == DefinedTail
            less == {i \in 1..Len(d) : RatLess(d[i], d[Len(d)])}
        IN  /\ RatLeq(RatInt(0), ret) /\ RatLeq(ret, RatInt(100))
            /\ Len(d) = 0 => ret = RatInt(50)
            /\ Len(d) # 0 => RatMul(ret, RatInt(Len(d))) = RatInt(100 * Cardinality(less))

\* C18 witness: of a series of four entries with one undefined, the trailing
\* three hold two defined ones, equal: 0 percent, where the whole series
\* would give a third.
C18_Witness ==
    /\ call = "get_volatility_percentile"
    /\ args.volatility = <<RatInt(10), RatNaN, RatInt(20), RatInt(20)>>
    /\ args.lookback = 3
    /\ ret = RatInt(0)
    /\ Len(DefinedTail) = 2

----------------------------------------------------------------------------
(* Claims about the divergence alert and beta *)

\* whether the result given to get_divergence_alert is detected, and its score
AlertDetected == get(args.divergence_result, "divergence_detected", FALSE)
AlertScore == get(args.divergence_result, "divergence_score", RatInt(0))

\* C19: get_divergence_alert returns safe iff the result is not detected;
\* when detected it returns critical iff score < -20, danger iff
\* -20 <= score < -10, and warning otherwise.
C19_DivergenceAlert ==
    call = "get_divergence_alert" =>
        LET score == AlertScore
            below20 == score.num < (0 - 20) * score.den
            below10 == score.num < (0 - 10) * score.den
        IN  /\ ret.level = "safe" <=> ~AlertDetected
            /\ AlertDetected =>
                  /\ ret.level = "critical" <=> below20
                  /\ ret.level = "danger" <=> ~below20 /\ below10
                  /\ ret.level = "warning" <=> ~below10

\* C19 witness: a detected divergence of exactly -20 is danger.
C19_Witness ==
    /\ call = "get_divergence_alert"
    /\ AlertDetected
    /\ AlertScore = RatInt(0 - 20)
    /\ ret.level = "danger"

\* the closes of df on the dates it shares with other, the trailing
\* args.window of them
AlignedCloses(df, other) ==
    LET shared == SelectSeq(df, LAMBDA r : \E j \in 1..Len(other) : other[j].date = r.date)
        n == IF args.window < Len(shared) THEN args.window ELSE Len(shared)
    IN  [i \in 1..n |-> shared[Len(shared) - n + i].Close]

\* the bar-to-bar returns of a sequence of closes
Returns(close) ==
    [i \in 1..(Len(close) - 1) |-> Rat(close[i + 1] - close[i], close[i])]

\* C20: calculate_beta returns 1 when either input is empty, when fewer
\* than 20 date-aligned observations remain in the trailing window (so
\* always when window < 20), and when the variance of the benchmark's daily
\* returns is 0; otherwise it returns Cov(asset returns, benchmark returns)
\* / Var(benchmark returns) over the trailing window of aligned bars.
C20_Beta ==
    call = "calculate_beta" =>
        LET a == AlignedCloses(args.asset, args.benchmark)
            b == AlignedCloses(args.benchmark, args.asset)
        IN  /\ args.window < 20 => ret = RatInt(1)
            /\ IF Len(args.asset) = 0 \/ Len(args.benchmark) = 0 \/ Len(a) < 20
               THEN ret = RatInt(1)
               ELSE LET variance == var(Returns(b))
                    IN  IF variance.num = 0 THEN ret = RatInt(1)
                        ELSE RatMul(ret, variance) = cov(Returns(a), Returns(b))

\* C20 witness: of 21 aligned bars the trailing 20 gave a beta that is not
\* the default, and not the beta of all 21.
C20_Witness ==
    /\ call = "calculate_beta"
    /\ args.asset = FrameLong
    /\ args.benchmark = BenchmarkLong
    /\ args.window = 20
    /\ ret # RatInt(1)
    /\ ret # calculate_beta(FrameLong, BenchmarkLong, 21)

----------------------------------------------------------------------------
(* Claims about the guarded divisions *)

\* C21: every division whose denominator can be zero is guarded and falls
\* back to a neutral constant instead of an error or an infinite or
\* undefined value: calculate_beta returns a finite number, so does
\* calculate_weekly_range, and calculate_atr_percent is finite on every
\* bar that has an average true range.
C21_GuardedDivisions ==
    /\ call = "calculate_beta" => IsFinite(ret)
    /\ call = "calculate_weekly_range" => IsFinite(ret)
    /\ call = "calculate_atr_percent" =>
          \A i \in 1..Len(ret) :
              i >= args.window => IsFinite(ret[i])

----------------------------------------------------------------------------
(* Claims about invalid windows *)

\* C22: a negative or zero window passed to get_spread_trend,
\* calculate_spread_velocity or calculate_beta is rejected as an error, and
\* never turned into a normal-looking result.
C22_InvalidWindowRejected ==
    /\ call = "get_spread_trend" /\ args.window <= 0 => ret = "TypeError"
    /\ call \in {"calculate_spread_velocity", "calculate_beta"} /\ args.window <= 0 =>
          DOMAIN ret = {"raised"}

----------------------------------------------------------------------------
(* Claims about a run of the script *)

\* the level of a spread under given thresholds
SpreadLevelUnder(current_spread, thresholds) ==
    IF current_spread <= thresholds.SPREAD_CRITICAL THEN "critical"
    ELSE IF current_spread <= thresholds.SPREAD_DANGER THEN "danger"
    ELSE IF current_spread <= thresholds.SPREAD_WARNING THEN "warning"
    ELSE "safe"

\* C23: the alert thresholds are overridable at call time: the spread alert
\* of a run is the level of the current spread under the thresholds of the
\* sidebar, and the daily move alerts from the daily-move threshold of the
\* sidebar on (the defaults apply where the sidebar holds them).
C23_ThresholdsOverridable ==
    call = "app" =>
        /\ ret.spread_alert = SpreadLevelUnder(ret.current_spread, ret.current_thresholds)
        /\ "daily_change" \in DOMAIN args.vol_stats =>
              (ret.vol_alert.level = "danger"
                  <=> Abs(args.vol_stats.daily_change)
                          >= ret.current_thresholds.JPY_DAILY_MOVE)

\* C24: when the US-yield series is empty the spread alert is safe, no
\* spread alert is appended to the alert list, and the composite score
\* adds 0 points for the missing spread.
C24_EmptyYieldIsNeutral ==
    call = "app" /\ Len(args.us_yield) = 0 =>
        /\ ret.spread_stats = EmptyDict
        /\ ret.spread_alert = "safe"
        /\ \A i \in 1..Len(ret.alerts) : ret.alerts[i].category # "spread"
        /\ spread_risk(ret.spread_stats).score = 0

----------------------------------------------------------------------------
(* Claims about the order of the analyzers *)

\* every result a run holds is the one its inputs determine
Determined ==
    /\ "spread" \in ret.done => ret.spread = spread_analyzer(args)
    /\ "volatility" \in ret.done => ret.volatility = volatility_analyzer(args)
    /\ "divergence" \in ret.done => ret.divergence = divergence_analyzer(args)
    /\ "risk" \in ret.done =>
          ret.risk = calculate_composite_risk_score(spread_analyzer(args),
                                                    volatility_analyzer(args),
                                                    divergence_analyzer(args))

----------------------------------------------------------------------------
(* Claims about the span of the changes *)

\* the latest defined spread minus the one n observations earlier
SpanChange(n) ==
    DefinedSpreads[Len(DefinedSpreads)] - DefinedSpreads[Len(DefinedSpreads) - n]

\* C26: whenever change_Nd of get_spread_statistics is computed from the
\* series (N in {1, 5, 20}, at least N + 1 observations), it is the latest
\* spread minus the spread exactly N observations earlier.
C26_ChangeSpansN ==
    call = "get_spread_statistics" /\ ret # EmptyDict =>
        /\ Len(DefinedSpreads) >= 2 => ret.change_1d = SpanChange(1)
        /\ Len(DefinedSpreads) >= 6 => ret.change_5d = SpanChange(5)
        /\ Len(DefinedSpreads) >= 21 => ret.change_20d = SpanChange(20)

----------------------------------------------------------------------------
(* Claims about the spans of the returns of detect_divergence *)

\* C27: in detect_divergence the benchmark performance and each asset
\* return span the same number of bars as the relative strength that flags
\* the asset: for a flagged asset on the dates of the benchmark with more
\* than `window` observations, relative_strength = asset_return -
\* benchmark_performance.
C27_SameSpan ==
    call = "detect_divergence" /\ Len(args.benchmark) > 0 =>
        \A k \in 1..Len(ret.details), i \in 1..Len(args.high_beta_assets) :
            /\ args.high_beta_assets[i].ticker = ret.details[k].ticker
            /\ Index(args.high_beta_assets[i].df) = Index(args.benchmark)
            /\ Len(args.high_beta_assets[i].df) > args.window
            => ret.details[k].relative_strength
                   = RatSub(ret.details[k].asset_return, ret.benchmark_performance)

----------------------------------------------------------------------------
(* Claims about the divergence alert and the composite score *)

\* C28: on the same detect_divergence result the divergence alert and the
\* divergence part of the composite score agree: safe with 0 points,
\* warning with 10, danger with 20 and critical with 30.
C28_AlertAgreesWithScore ==
    call = "classify_divergence" =>
        LET level == ret.div_alert.level
            points == ret.risk.score
        IN  /\ level = "safe" <=> points = 0
            /\ level = "warning" <=> points = 10
            /\ level = "danger" <=> points = 20
            /\ level = "critical" <=> points = 30

\* C28 witness: a detected divergence of exactly -20 is danger with 20
\* points.
C28_Witness ==
    /\ call = "classify_divergence"
    /\ ret.divergence_result.divergence_detected
    /\ ret.divergence_result.divergence_score = RatInt(0 - 20)
    /\ ret.div_alert.level = "danger"
    /\ ret.risk.score = 20

----------------------------------------------------------------------------
(* Claims about insufficient history *)

\* the dates asset i shares with the benchmark
SharedDates(i) == Index(args.high_beta_assets[i].df) \cap Index(args.benchmark)

\* C29: no divergence is derived from insufficient history: an asset that
\* shares at most `window` dates with the benchmark (so every asset, when
\* the benchmark has at most `window` observations) has the current
\* relative strength 0 and is not flagged, and with a benchmark of at most
\* `window` observations detect_divergence returns divergence_detected
\* false, divergence_score 0 and benchmark_performance 0.
C29_InsufficientHistory ==
    call = "detect_divergence" =>
        /\ \A i \in 1..Len(args.high_beta_assets) :
              Cardinality(SharedDates(i)) <= args.window =>
                  /\ args.high_beta_assets[i].ticker \notin DetailTickers
                  /\ SharedDates(i) # {} => CurrentStrength(i) = RatInt(0)
        /\ Len(args.benchmark) <= args.window =>
              /\ ~ret.divergence_detected
              /\ ret.divergence_score = RatInt(0)
              /\ ret.benchmark_performance = RatInt(0)
              /\ ret.details = << >>

\* C29 witness: an asset that fell by a fifth on the two dates it shares
\* with a benchmark of three or more dates is not flagged with window 2,
\* while the other asset is.
C29_Witness ==
    /\ call = "detect_divergence"
    /\ args.window = 2
    /\ Len(args.benchmark) > 2
    /\ Len(args.high_beta_assets) = 2
    /\ Cardinality(SharedDates(1)) = 2
    /\ Close(args.high_beta_assets[1].df)[Len(args.high_beta_assets[1].df)] = 80
    /\ DetailTickers = {"EEM"}

----------------------------------------------------------------------------
(* Claims about the result of the liquidity-retreat analysis *)

\* the number of dates asset shares with the call's benchmark
AlignedDates(asset) ==
    Cardinality(Index(asset.df) \cap Index(args.benchmark))

\* the asset's beta is the fallback 1.0: the frame or the benchmark is
\* empty, or fewer than 20 observations are aligned
HasFallbackBeta(asset) ==
    \/ Len(asset.df) = 0
    \/ Len(args.benchmark) = 0
    \/ AlignedDates(asset) < BETA_MIN_OBSERVATIONS

\* C30: in every result of analyze_liquidity_retreat severity is 'none' iff
\* retreat_detected is false; retreat_detected implies at least 2 entries in
\* retreat_order, and severity is 'high' iff detected with at least 3;
\* retreat_order lists exactly the high-beta underperformers, also when
\* nothing is detected, without duplicates and in non-increasing beta order;
\* an asset with the fallback beta 1.0 is in neither group: it is not
\* listed, a detected retreat has an asset without the fallback beta
\* outside retreat_order, and when every asset has the fallback beta
\* nothing is detected and retreat_order is empty.
C30_RetreatResult ==
    call = "analyze_liquidity_retreat" =>
        LET metrics == RetreatMetrics
            order == ret.retreat_order
            listed == {order[k] : k \in 1..Len(order)}
            assets == {args.assets[i] : i \in 1..Len(args.assets)}
        IN  /\ ret.severity \in {"none", "medium", "high"}
            /\ ret.severity = "none" <=> ~ret.retreat_detected
            /\ ret.retreat_detected => Len(order) >= 2
            /\ ret.severity = "high" <=> (ret.retreat_detected /\ Len(order) >= 3)
            /\ listed = {metrics[i].ticker : i \in Underperformers(metrics)}
            /\ Cardinality(listed) = Len(order)
            /\ \A k \in 1..(Len(order) - 1) :
                   RatLeq(BetaOf(metrics, order[k + 1]), BetaOf(metrics, order[k]))
            /\ \A a \in assets : HasFallbackBeta(a) => a.ticker \notin listed
            /\ ret.retreat_detected =>
                   \E a \in assets : ~HasFallbackBeta(a) /\ a.ticker \notin listed
            /\ (\A a \in assets : HasFallbackBeta(a)) =>
                   ~ret.retreat_detected /\ order = << >>

\* C30 witness: two assets of 19 dates that fell 10 points behind the
\* benchmark in 5 days, next to a stable low-beta asset, are not listed and
\* no retreat is detected.
C30_Witness ==
    /\ call = "analyze_liquidity_retreat"
    /\ args.benchmark = RetreatBenchmark
    /\ Len(args.assets) = 3
    /\ args.assets[1].df = FrameShort
    /\ args.assets[2].df = FrameShort
    /\ args.assets[3].df = FrameB
    /\ ret = [retreat_detected |-> FALSE, retreat_order |-> << >>,
              severity |-> "none"]

====
